---- MODULE Spec2Model ----
(***************************************************************************)
(* BudgetWise: the data access layer (DatabaseService) over its SQLite     *)
(* store, and the authentication and encryption layer (AuthService) over   *)
(* the secure storage, the cipher and the timers of the platform.  A       *)
(* process is one call of a public method; a step is the code that runs    *)
(* between two awaits on the single JavaScript thread.  The store (tables  *)
(* and rows) and the secure storage survive an app launch, the service     *)
(* instances do not.                                                       *)
(***************************************************************************)
EXTENDS Integers, Sequences, FiniteSets, TLC

\* ---------------------------------------------------------------- bounds
NumProcs    == 2    \* calls that may be in flight at once
MaxLaunches == 2    \* app launches (service instances) against one store
MaxFaults   == 1    \* DDL / seed statements that fail in a behaviour

MaxTxn      == 2    \* rows of table transactions
MaxTimers   == 2    \* calls of AuthService.initialize() in a launch
MaxChecks   == 6    \* check intervals the clock runs for
MaxKeys     == 2    \* keys drawn from the random source

Procs == 1..NumProcs

\* ------------------------------------------------------- program constants
TableNames == <<"transactions", "budgets", "categories", "settings">>

defaultCategories ==
  << [name |-> "Salary",         type |-> "income"],
     [name |-> "Food & Dining",  type |-> "expense"],
     [name |-> "Transportation", type |-> "expense"],
     [name |-> "Shopping",       type |-> "expense"],
     [name |-> "Entertainment",  type |-> "expense"] >>

defaultSettings ==
  << [key |-> "currency",      value |-> "USD"],
     [key |-> "theme",         value |-> "system"],
     [key |-> "notifications", value |-> "true"],
     [key |-> "firstLaunch",   value |-> "true"] >>

\* inputs of setSetting / getSetting
SettingInputs == { <<"currency", "EUR">>, <<"currency", "GBP">>,
                   <<"authMethod", "pin">> }
SettingKeys   == { "currency", "authMethod" }

\* inputs of addTransaction.  A date is an instant, numbered in time order;
\* toISOString gives its text, here the fields <<year, month, day>> of
\* 'YYYY-MM-DDT...Z', which SQLite compares as text.
Instants   == {1, 2}
IsoText    == << <<2023, 12, 31>>, <<2024, 1, 1>> >>
Samples    ==
  { [type |-> "income",  category |-> "salary", amount |-> 100],
    [type |-> "expense", category |-> "food",   amount |-> 40],
    [type |-> "expense", category |-> "rent",   amount |-> 100],
    [type |-> "refund",  category |-> "food",   amount |-> 40] }
TxnIds     == 1..MaxTxn
TxnInputs  ==
  LET noId == {[amount |-> k.amount, type |-> k.type, category |-> k.category,
                date |-> d] : k \in Samples, d \in Instants}
  IN  noId \cup {[id |-> i] @@ data : i \in TxnIds, data \in noId}

\* JavaScript values that JSON carries: null, a boolean, a string, an array
\* of values, an object of members <<name, value>> in insertion order
JsNull      == [t |-> "null"]
JsBoolean(b) == [t |-> "boolean", b |-> b]
JsString(s)  == [t |-> "string", s |-> s]
JsArray(items)   == [t |-> "array", items |-> items]
JsObject(fields) == [t |-> "object", fields |-> fields]

\* inputs of addTransaction for the round trip: one sample, with and without
\* an id, tags, a recurring flag and a recurring pattern
RoundTripExtras ==
  { <<>>,
    [tags |-> JsArray(<<JsString("b"), JsString("a")>>)],
    [tags |-> JsArray(<<>>), recurring |-> FALSE, recurringPattern |-> JsNull],
    [tags |-> JsArray(<<JsString("a")>>), recurring |-> TRUE,
     recurringPattern |-> JsObject(<< <<"frequency", JsString("monthly")>>,
                                      <<"end", JsString("never")>> >>)] }
RoundTripInputs ==
  LET noId == {[amount |-> 40, type |-> "expense", category |-> "food", date |-> d] @@ x :
                 d \in Instants, x \in RoundTripExtras}
  IN  noId \cup {[id |-> i] @@ data : i \in TxnIds, data \in noId}

\* inputs of the queries
DefaultLimit == 100
PageInputs   == { <<DefaultLimit, 0>>, <<1, 0>>, <<1, 1>>, <<2, 1>> }
EmptyText    == <<>>
FilterInputs ==
  LET typeF  == {<<>>} \cup {[type |-> v] : v \in {"", "expense"}}
      catF   == {<<>>} \cup {[category |-> v] : v \in {"", "food"}}
      startF == {<<>>} \cup {[startDate |-> v] : v \in {IsoText[2]}}
      endF   == {<<>>} \cup {[endDate |-> v] : v \in {EmptyText, IsoText[1]}}
  IN  {a @@ b @@ c @@ d : a \in typeF, b \in catF, c \in startF, d \in endF}
RangeInputs  == {IsoText[1], IsoText[2]}
NowInputs    == { <<2024, 1, 31>>, <<2024, 3, 31>> }
MonthsInputs == {1, 6}

\* AuthService: the interval of the session check and the default timeout,
\* in ms; the keys of the secure storage; the PINs entered
CheckInterval  == 30000
DefaultTimeout == 5 * 60 * 1000
SecureKeys     == {"userPIN", "encryptionKey"}
PinInputs      == {"1234", "0000"}
MinutesInputs  == {1}
NoTimer        == 0

\* inputs of encryptData: serializable values, empty and nested, and an
\* object that refers to itself; texts handed to decryptData that no
\* encryptData of this run returned: a text that is neither JSON nor a
\* ciphertext, and data written before encryption was introduced
Circular     == [t |-> "circular"]
Serializable ==
  { JsNull, JsString(""), JsArray(<<>>),
    JsObject(<< <<"tags", JsArray(<<JsString("a"), JsObject(<<>>)>>)>>,
                <<"recurring", JsBoolean(TRUE)>> >>) }
CryptoInputs == Serializable \cup {Circular}
BlobInputs   == { <<"not json">>, <<"[", "\"", "a", "]">> }

NoOp  == [name |-> "none"]
NoRes == [kind |-> "none"]
Undefined == "undefined"
Null      == "null"

VARIABLES
  tables,        \* store: names of the tables that exist
  transactions,  \* store: rows of table transactions
  categories,    \* store: rows of table categories
  settings,      \* store: rows of table settings
  db,            \* this.db: Null or "open"
  isInitialized, \* this.isInitialized
  openCount,     \* calls of SQLite.openDatabase by this instance
  createCount,   \* calls of createTables by this instance
  launches,      \* app launches so far
  faultsLeft,    \* DDL / seed statements that may still fail
  pc,            \* per call: where it is suspended
  idx,           \* per call: index of the statement / loop iteration awaited
  op,            \* per call: the method and its arguments
  res,           \* per call: how it completed
  failed,        \* per call: a store failure happened in the method body
  isAuthenticated, \* AuthService: this.isAuthenticated
  authMethod,      \* AuthService: this.authMethod
  sessionTimeout,  \* AuthService: this.sessionTimeout, in ms
  lastActivity,    \* AuthService: this.lastActivity, in ms
  sessionTimer,    \* AuthService: this.sessionTimer, an interval id or NoTimer
  secure,          \* platform: EncryptedStorage, the value under each key
  intervals,       \* platform: the intervals scheduled, each with its due time
  timerCount,      \* platform: calls of setInterval by this launch
  clock,           \* platform: Date.now(), in ms
  localKey,        \* per call: the local variable key of the encryption methods
  keyCount         \* platform: keys drawn from the random source so far

store    == <<tables, transactions, categories, settings>>
instance == <<db, isInitialized, openCount, createCount>>
authService == <<isAuthenticated, authMethod, sessionTimeout, lastActivity,
                 sessionTimer>>
platform == <<secure, intervals, timerCount, clock>>
crypto   == <<localKey, keyCount>>
vars     == <<tables, transactions, categories, settings,
              db, isInitialized, openCount, createCount,
              launches, faultsLeft, pc, idx, op, res, failed,
              isAuthenticated, authMethod, sessionTimeout, lastActivity,
              sessionTimer, secure, intervals, timerCount, clock,
              localKey, keyCount>>

\* ------------------------------------------------------------ SQL helpers
\* INSERT OR IGNORE INTO categories: the only uniqueness constraint of the
\* table is its primary key id.
InsertOrIgnoreCategory(rows, row) ==
  IF \E r \in rows : r.id = row.id THEN rows ELSE rows \cup {row}

\* INSERT OR IGNORE INTO settings: primary key is key.
InsertOrIgnoreSetting_Replace(rows, row) ==
  {r \in rows : r.key # row.key} \cup {row}

InsertOrIgnoreSetting(rows, row) ==
  IF \E r \in rows : r.key = row.key THEN rows ELSE rows \cup {row}

\* INSERT OR REPLACE INTO settings: the row with the same key is replaced.
InsertOrReplaceSetting_Append(rows, row) ==
  rows \cup {row}

InsertOrReplaceSetting(rows, row) ==
  {r \in rows : r.key # row.key} \cup {row}

\* SELECT value FROM settings WHERE key = ?  (first row's value, or null)
SelectSetting(rows, key) ==
  IF \E r \in rows : r.key = key
    THEN (CHOOSE r \in rows : r.key = key).value
    ELSE Null

\* The outcomes a DDL or seed statement can have: it can fail while the
\* fault budget lasts.
StmtOutcomes == IF faultsLeft > 0 THEN BOOLEAN ELSE {TRUE}


\* ------------------------------------------------------------------ Init
\* constructor (db = null, isInitialized = false) on an empty store; the
\* constructor of AuthService on an empty secure storage, at time 0
Constructed ==
  /\ tables = {}
  /\ transactions = {}
  /\ categories = {}
  /\ settings = {}
  /\ db = Null
  /\ isInitialized = FALSE
  /\ openCount = 0
  /\ createCount = 0
  /\ launches = 1
  /\ pc = [p \in Procs |-> "idle"]
  /\ idx = [p \in Procs |-> 0]
  /\ op = [p \in Procs |-> NoOp]
  /\ res = [p \in Procs |-> NoRes]
  /\ failed = [p \in Procs |-> FALSE]
  /\ isAuthenticated = FALSE
  /\ authMethod = "none"
  /\ sessionTimeout = DefaultTimeout
  /\ lastActivity = 0
  /\ sessionTimer = NoTimer
  /\ secure = [k \in SecureKeys |-> Null]
  /\ intervals = {}
  /\ timerCount = 0
  /\ clock = 0
  /\ localKey = [p \in Procs |-> Null]
  /\ keyCount = 0

Init == Constructed /\ faultsLeft = MaxFaults

\* ------------------------------------------------------------ initialize
\* initialize() from its entry to its first await: the isInitialized test,
\* then the call of SQLite.openDatabase.
initialize_NoGuard(p) ==
  /\ pc' = [pc EXCEPT ![p] = "open"]
  /\ openCount' = openCount + 1

initialize(p) ==
  IF isInitialized
    THEN /\ pc' = [pc EXCEPT ![p] = "body"]
         /\ UNCHANGED openCount
    ELSE /\ pc' = [pc EXCEPT ![p] = "open"]
         /\ openCount' = openCount + 1

\* completion of a call
Returns(p, v) ==
  /\ res' = [res EXCEPT ![p] = [kind |-> "return", val |-> v]]
  /\ pc' = [pc EXCEPT ![p] = "done"]

Throws(p) ==
  /\ res' = [res EXCEPT ![p] = [kind |-> "throw"]]
  /\ pc' = [pc EXCEPT ![p] = "done"]

\* initialize(): createTables() has returned, isInitialized = true, and the
\* method that awaited initialize() goes on.
initializeDone(p) ==
  /\ isInitialized' = TRUE
  /\ pc' = [pc EXCEPT ![p] = "body"]
  /\ UNCHANGED res

\* initialize(): the catch block logs, sets isInitialized = true, and the
\* method that awaited initialize() goes on.
initializeCatch_Rethrow(p) ==
  /\ UNCHANGED isInitialized
  /\ Throws(p)

initializeCatch(p) ==
  /\ isInitialized' = TRUE
  /\ pc' = [pc EXCEPT ![p] = "body"]
  /\ UNCHANGED res

\* createTables() from its entry to the first awaited CREATE TABLE.
createTables(p) ==
  /\ createCount' = createCount + 1
  /\ pc' = [pc EXCEPT ![p] = "create"]
  /\ idx' = [idx EXCEPT ![p] = 1]

\* createTables(): the catch block logs and createTables() returns normally
\* to initialize().
createTablesCatch(p) == initializeDone(p)

\* A public method is called: it runs up to the first await of initialize().
Call(p, o) ==
  /\ pc[p] = "idle"
  /\ op' = [op EXCEPT ![p] = o]
  /\ initialize(p)
  /\ UNCHANGED <<store, db, isInitialized, createCount, launches, faultsLeft,
                 idx, res, failed>>
  /\ UNCHANGED <<authService, platform, crypto>>

\* The caller has taken the outcome of its call.
Return(p) ==
  /\ pc[p] = "done"
  /\ pc' = [pc EXCEPT ![p] = "idle"]
  /\ op' = [op EXCEPT ![p] = NoOp]
  /\ res' = [res EXCEPT ![p] = NoRes]
  /\ failed' = [failed EXCEPT ![p] = FALSE]
  /\ localKey' = [localKey EXCEPT ![p] = Null]
  /\ UNCHANGED <<store, instance, launches, faultsLeft, idx>>
  /\ UNCHANGED <<authService, platform, keyCount>>

\* SQLite.openDatabase settles: this.db is assigned and createTables() is
\* entered, or the rejection is caught by initialize().
OpenDatabase(p) ==
  /\ pc[p] = "open"
  /\ \E ok \in BOOLEAN :
       IF ok
         THEN /\ db' = "open"
              /\ createTables(p)
              /\ UNCHANGED <<isInitialized, res>>
         ELSE /\ initializeCatch(p)
              /\ UNCHANGED <<db, createCount, idx>>
  /\ UNCHANGED <<store, openCount, launches, faultsLeft, op, failed>>
  /\ UNCHANGED <<authService, platform, crypto>>

\* One CREATE TABLE IF NOT EXISTS settles.  After the fourth,
\* insertDefaultCategories() is entered; a failure is caught by
\* createTables(), which returns to initialize().
CreateTable(p) ==
  /\ pc[p] = "create"
  /\ \E ok \in StmtOutcomes :
       IF ok /\ db # Null
         THEN /\ tables' = tables \cup {TableNames[idx[p]]}
              /\ IF idx[p] < Len(TableNames)
                   THEN /\ idx' = [idx EXCEPT ![p] = idx[p] + 1]
                        /\ UNCHANGED pc
                   ELSE /\ pc' = [pc EXCEPT ![p] = "seedCategory"]
                        /\ idx' = [idx EXCEPT ![p] = 1]
              /\ UNCHANGED <<isInitialized, faultsLeft, res>>
         ELSE /\ faultsLeft' = faultsLeft - 1
              /\ createTablesCatch(p)
              /\ UNCHANGED <<tables, idx>>
  /\ UNCHANGED <<transactions, categories, settings, db, openCount,
                 createCount, launches, op, failed>>
  /\ UNCHANGED <<authService, platform, crypto>>

\* 'cat_' + Date.now() + '_' + random: an id no other row carries.  It is
\* named after the launch, the call and the loop iteration that made it.
NewCategoryId(p) == <<launches, p, idx[p]>>

\* One iteration of the loop of insertDefaultCategories(): a new id and
\* INSERT OR IGNORE.  A failure
\* leaves the loop through the catch; insertDefaultSettings() follows.
insertDefaultCategories(p) ==
  /\ pc[p] = "seedCategory"
  /\ \E ok \in StmtOutcomes :
       IF ok /\ db # Null /\ "categories" \in tables
         THEN /\ categories' = InsertOrIgnoreCategory(categories,
                   [id |-> NewCategoryId(p),
                    name |-> defaultCategories[idx[p]].name,
                    type |-> defaultCategories[idx[p]].type])
              /\ IF idx[p] < Len(defaultCategories)
                   THEN /\ idx' = [idx EXCEPT ![p] = idx[p] + 1]
                        /\ UNCHANGED pc
                   ELSE /\ pc' = [pc EXCEPT ![p] = "seedSetting"]
                        /\ idx' = [idx EXCEPT ![p] = 1]
              /\ UNCHANGED faultsLeft
         ELSE /\ faultsLeft' = faultsLeft - 1
              /\ pc' = [pc EXCEPT ![p] = "seedSetting"]
              /\ idx' = [idx EXCEPT ![p] = 1]
              /\ UNCHANGED categories
  /\ UNCHANGED <<tables, transactions, settings, instance, launches,
                 op, res, failed>>
  /\ UNCHANGED <<authService, platform, crypto>>

\* One iteration of the loop of insertDefaultSettings(): INSERT OR IGNORE.
\* After the last one, or after a failure, createTables() returns and
\* initialize() completes.
insertDefaultSettings(p) ==
  /\ pc[p] = "seedSetting"
  /\ \E ok \in StmtOutcomes :
       IF ok /\ db # Null /\ "settings" \in tables
         THEN /\ settings' = InsertOrIgnoreSetting(settings, defaultSettings[idx[p]])
              /\ IF idx[p] < Len(defaultSettings)
                   THEN /\ idx' = [idx EXCEPT ![p] = idx[p] + 1]
                        /\ UNCHANGED <<pc, isInitialized, res>>
                   ELSE /\ initializeDone(p)
                        /\ UNCHANGED idx
              /\ UNCHANGED faultsLeft
         ELSE /\ faultsLeft' = faultsLeft - 1
              /\ initializeDone(p)
              /\ UNCHANGED <<settings, idx>>
  /\ UNCHANGED <<tables, transactions, categories, db, openCount,
                 createCount, launches, op, failed>>
  /\ UNCHANGED <<authService, platform, crypto>>

\* The app is started again, between calls: new service instances on the
\* same store and the same secure storage; the intervals of the process
\* that ended are gone.
Launch ==
  /\ launches < MaxLaunches
  /\ \A p \in Procs : pc[p] \in {"idle", "done"}
  /\ launches' = launches + 1
  /\ db' = Null
  /\ isInitialized' = FALSE
  /\ openCount' = 0
  /\ createCount' = 0
  /\ pc' = [p \in Procs |-> "idle"]
  /\ idx' = [p \in Procs |-> 0]
  /\ op' = [p \in Procs |-> NoOp]
  /\ res' = [p \in Procs |-> NoRes]
  /\ failed' = [p \in Procs |-> FALSE]
  /\ isAuthenticated' = FALSE
  /\ authMethod' = "none"
  /\ sessionTimeout' = DefaultTimeout
  /\ lastActivity' = clock
  /\ sessionTimer' = NoTimer
  /\ intervals' = {}
  /\ timerCount' = 0
  /\ localKey' = [p \in Procs |-> Null]
  /\ UNCHANGED <<store, faultsLeft, secure, clock, keyCount>>

\* ------------------------------------------------------- method bodies
\* a direct call of initialize() has nothing after it
InitializeReturn(p) ==
  /\ pc[p] = "body" /\ op[p].name = "initialize"
  /\ Returns(p, Undefined)
  /\ UNCHANGED <<store, instance, launches, faultsLeft, idx, op, failed>>
  /\ UNCHANGED <<authService, platform, crypto>>

\* getSetting: the catch block logs and returns null
getSettingCatch(p) ==
  /\ Returns(p, Null)
  /\ failed' = [failed EXCEPT ![p] = TRUE]

\* setSetting: the catch block logs
setSettingCatch(p) ==
  /\ Returns(p, Undefined)
  /\ failed' = [failed EXCEPT ![p] = TRUE]

\* getSetting(key): the SELECT, first row's value or null
getSetting(p) ==
  /\ pc[p] = "body" /\ op[p].name = "getSetting"
  /\ \E ok \in BOOLEAN :
       IF ok /\ db # Null /\ "settings" \in tables
         THEN /\ Returns(p, SelectSetting(settings, op[p].key))
              /\ UNCHANGED failed
         ELSE getSettingCatch(p)
  /\ UNCHANGED <<store, instance, launches, faultsLeft, idx, op>>
  /\ UNCHANGED <<authService, platform, crypto>>

\* setSetting(key, value): INSERT OR REPLACE
setSetting(p) ==
  /\ pc[p] = "body" /\ op[p].name = "setSetting"
  /\ \E ok \in BOOLEAN :
       IF ok /\ db # Null /\ "settings" \in tables
         THEN /\ settings' = InsertOrReplaceSetting(settings,
                   [key |-> op[p].key, value |-> op[p].value])
              /\ Returns(p, Undefined)
              /\ UNCHANGED failed
         ELSE /\ setSettingCatch(p)
              /\ UNCHANGED settings
  /\ UNCHANGED <<tables, transactions, categories, instance,
                 launches, faultsLeft, idx, op>>
  /\ UNCHANGED <<authService, platform, crypto>>

\* ------------------------------------------------------------------ Spec
\* Lazy initialization under concurrent calls on one service instance.
ConcurrentOps ==
  {[name |-> "initialize"], [name |-> "getSetting", key |-> "currency"]}

Next ==
  \/ \E p \in Procs : \E o \in ConcurrentOps : Call(p, o)
  \/ \E p \in Procs : OpenDatabase(p)
  \/ \E p \in Procs : CreateTable(p)
  \/ \E p \in Procs : insertDefaultCategories(p)
  \/ \E p \in Procs : insertDefaultSettings(p)
  \/ \E p \in Procs : InitializeReturn(p)
  \/ \E p \in Procs : getSetting(p)
  \/ \E p \in Procs : Return(p)

Spec == Init /\ [][Next]_vars

\* --------------------------------------------------------------- SpecSeq
\* Sequential calls of initialize and the settings methods, over several
\* launches against the same store.
SeqOps ==
  {[name |-> "initialize"]}
    \cup {[name |-> "getSetting", key |-> k] : k \in SettingKeys}
    \cup {[name |-> "setSetting", key |-> kv[1], value |-> kv[2]] : kv \in SettingInputs}

NextSeq ==
  \/ \E o \in SeqOps : Call(1, o)
  \/ OpenDatabase(1)
  \/ CreateTable(1)
  \/ insertDefaultCategories(1)
  \/ insertDefaultSettings(1)
  \/ InitializeReturn(1)
  \/ getSetting(1)
  \/ setSetting(1)
  \/ Return(1)
  \/ Launch

SpecSeq == Init /\ [][NextSeq]_vars


\* ----------------------------------------------------------- transactions
\* Date.prototype.toISOString
toISOString(d) == IsoText[d]

\* text comparison a <= b of SQLite (memcmp, then the shorter first), on
\* the fields of an ISO text
RECURSIVE TextLeq(_, _)
TextLeq(a, b) ==
  IF a = <<>> THEN TRUE
  ELSE IF b = <<>> THEN FALSE
  ELSE IF Head(a) # Head(b) THEN Head(a) < Head(b)
  ELSE TextLeq(Tail(a), Tail(b))

\* new Date(text) of an ISO text: the instant it names
DateParse(text) == CHOOSE d \in Instants : toISOString(d) = text

\* JSON.stringify: the text as its sequence of tokens; a string literal is
\* the token '"' and then its characters
RECURSIVE JSONstringify(_)
RECURSIVE StringifyItems(_)
StringifyItems(items) ==
  IF items = <<>> THEN <<>>
  ELSE JSONstringify(Head(items))
         \o (IF Tail(items) = <<>> THEN <<>> ELSE <<",">>)
         \o StringifyItems(Tail(items))

RECURSIVE StringifyMembers(_)
StringifyMembers(fields) ==
  IF fields = <<>> THEN <<>>
  ELSE <<"\"", Head(fields)[1], ":">> \o JSONstringify(Head(fields)[2])
         \o (IF Tail(fields) = <<>> THEN <<>> ELSE <<",">>)
         \o StringifyMembers(Tail(fields))

JSONstringify(v) ==
  CASE v.t = "null"    -> <<"null">>
    [] v.t = "boolean" -> <<IF v.b THEN "true" ELSE "false">>
    [] v.t = "string"  -> <<"\"", v.s>>
    [] v.t = "array"   -> <<"[">> \o StringifyItems(v.items) \o <<"]">>
    [] v.t = "object"  -> <<"{">> \o StringifyMembers(v.fields) \o <<"}">>

\* JSON.parse: the value a text begins with and the tokens after it, or no
\* value where the text is not JSON
NoParse == [ok |-> FALSE, rest |-> <<>>]

RECURSIVE ParseValue(_)
RECURSIVE ParseItems(_, _)
ParseItems(toks, items) ==
  IF toks = <<>> THEN NoParse
  ELSE IF Head(toks) = "]"
    THEN [ok |-> TRUE, val |-> JsArray(items), rest |-> Tail(toks)]
  ELSE IF Head(toks) = "," THEN ParseItems(Tail(toks), items)
  ELSE LET item == ParseValue(toks)
       IN  IF item.ok THEN ParseItems(item.rest, Append(items, item.val))
                      ELSE NoParse

RECURSIVE ParseMembers(_, _)
ParseMembers(toks, fields) ==
  IF toks = <<>> THEN NoParse
  ELSE IF Head(toks) = "}"
    THEN [ok |-> TRUE, val |-> JsObject(fields), rest |-> Tail(toks)]
  ELSE IF Head(toks) = "," THEN ParseMembers(Tail(toks), fields)
  ELSE IF Len(toks) < 4 \/ toks[1] # "\"" \/ toks[3] # ":" THEN NoParse
  ELSE LET member == ParseValue(SubSeq(toks, 4, Len(toks)))
       IN  IF member.ok
             THEN ParseMembers(member.rest,
                               Append(fields, <<toks[2], member.val>>))
             ELSE NoParse

ParseValue(toks) ==
  IF toks = <<>> THEN NoParse
  ELSE CASE Head(toks) = "null"  ->
              [ok |-> TRUE, val |-> JsNull, rest |-> Tail(toks)]
         [] Head(toks) = "true"  ->
              [ok |-> TRUE, val |-> JsBoolean(TRUE), rest |-> Tail(toks)]
         [] Head(toks) = "false" ->
              [ok |-> TRUE, val |-> JsBoolean(FALSE), rest |-> Tail(toks)]
         [] Head(toks) = "\""    ->
              IF Len(toks) < 2 THEN NoParse
              ELSE [ok |-> TRUE, val |-> JsString(toks[2]),
                    rest |-> SubSeq(toks, 3, Len(toks))]
         [] Head(toks) = "["     -> ParseItems(Tail(toks), <<>>)
         [] Head(toks) = "{"     -> ParseMembers(Tail(toks), <<>>)
         [] OTHER                -> NoParse

\* JSON.parse throws a SyntaxError
SyntaxError(text) ==
  LET parsed == ParseValue(text) IN ~parsed.ok \/ parsed.rest # <<>>

JSONparse(text) == ParseValue(text).val

\* Boolean(n) of a number
Boolean(n) == n # 0

\* new Transaction(data): the record of the data, with a generated id when
\* the data carries none (an id no stored row has), no tags, not recurring
\* and no recurring pattern where the data names none
Transaction(data) ==
  LET defaults == [tags |-> JsArray(<<>>), recurring |-> FALSE,
                   recurringPattern |-> JsNull]
  IN  IF "id" \in DOMAIN data THEN data @@ defaults
      ELSE [id |-> CHOOSE i \in TxnIds : \A r \in transactions : r.id # i]
             @@ data @@ defaults

\* the row written by addTransaction for a record
TransactionRow(txn) ==
  [id |-> txn.id, amount |-> txn.amount, type |-> txn.type,
   category |-> txn.category, date |-> toISOString(txn.date),
   tags |-> JSONstringify(txn.tags),
   recurring |-> IF txn.recurring THEN 1 ELSE 0,
   recurringPattern |-> JSONstringify(txn.recurringPattern)]

\* getTransactions, the copy of a row: tags and recurringPattern parsed
\* (an empty text read as '[]' and as 'null'), recurring made a boolean
RowObject_TagsDropped(row) ==
  [row EXCEPT
     !.tags = JSONparse(<<"[", "]">>),
     !.recurringPattern = JSONparse(IF row.recurringPattern = EmptyText
                                      THEN <<"null">> ELSE row.recurringPattern),
     !.recurring = Boolean(row.recurring)]

RowObject(row) ==
  [row EXCEPT
     !.tags = JSONparse(IF row.tags = EmptyText THEN <<"[", "]">> ELSE row.tags),
     !.recurringPattern = JSONparse(IF row.recurringPattern = EmptyText
                                      THEN <<"null">> ELSE row.recurringPattern),
     !.recurring = Boolean(row.recurring)]

\* Transaction.fromJSON: the record of the object, its date a timestamp
fromJSON(json) == [json EXCEPT !.date = DateParse(json.date)]

\* INSERT INTO transactions: id is the primary key, a second row with the
\* same id is a constraint failure
InsertTransaction_OrReplace(rows, row) ==
  [ok |-> TRUE, rows |-> {r \in rows : r.id # row.id} \cup {row}]

InsertTransaction(rows, row) ==
  IF \E r \in rows : r.id = row.id
    THEN [ok |-> FALSE, rows |-> rows]
    ELSE [ok |-> TRUE, rows |-> rows \cup {row}]

\* ORDER BY ... DESC: the sequences that list the rows S once each, no row
\* ahead of a row of greater rank; rows of equal rank come in any order
Orderings(S, rank) ==
  LET n == Cardinality(S)
  IN  {s \in [1..n -> S] :
         /\ \A i, j \in 1..n : i # j => s[i] # s[j]
         /\ \A i, j \in 1..n : i < j => rank[s[i]] >= rank[s[j]]}

\* the rank of each row of S by a text column: the number of rows whose
\* text is not after its own
DateRank(S)  == [r \in S |-> Cardinality({x \in S : TextLeq(x.date, r.date)})]
MonthRank(S) == [r \in S |-> Cardinality({x \in S : TextLeq(x.month, r.month)})]
\* ORDER BY total DESC: the rank of a group is its total
TotalRank_Ascending(S) == [r \in S |-> 0 - r.total]

TotalRank(S) == [r \in S |-> r.total]

\* LIMIT limit OFFSET offset
Slice_NoOffset(s, limit, offset) ==
  SubSeq(s, 1, IF limit < Len(s) THEN limit ELSE Len(s))

Slice(s, limit, offset) ==
  SubSeq(s, offset + 1, IF offset + limit < Len(s) THEN offset + limit ELSE Len(s))

RECURSIVE SumAmount(_)
SumAmount(S) ==
  IF S = {} THEN 0
  ELSE LET r == CHOOSE x \in S : TRUE IN r.amount + SumAmount(S \ {r})

\* the empty string: '' for a type or a category, no field for a date text
Empty(k) == IF k \in {"startDate", "endDate"} THEN EmptyText ELSE ""

\* JavaScript truthiness of a filter value: the key is there and its text
\* is not empty
Truthy(f, k) == k \in DOMAIN f /\ f[k] # Empty(k)

\* the WHERE clause getTransactions builds from filters
Where(r, f) ==
  /\ Truthy(f, "type") => r.type = f.type
  /\ Truthy(f, "category") => r.category = f.category
  /\ Truthy(f, "startDate") => TextLeq(f.startDate, r.date)
  /\ Truthy(f, "endDate") => TextLeq(r.date, f.endDate)

\* WHERE date >= ? AND date <= ?
InRange_Exclusive(r, startDate, endDate) ==
  TextLeq(startDate, r.date) /\ TextLeq(r.date, endDate) /\ r.date # endDate

InRange(r, startDate, endDate) ==
  TextLeq(startDate, r.date) /\ TextLeq(r.date, endDate)

\* SELECT type, SUM(amount) as total ... GROUP BY type
SummaryRows(rows, startDate, endDate) ==
  LET sel == {r \in rows : InRange(r, startDate, endDate)}
  IN  {[type |-> t, total |-> SumAmount({r \in sel : r.type = t})] :
         t \in {r.type : r \in sel}}

\* the summary object: the three zeros, then summary[row.type] = row.total
\* for every row of the result
Summary(groups) ==
  [k \in {"income", "expense", "transfer"} \cup {g.type : g \in groups} |->
     IF \E g \in groups : g.type = k
       THEN (CHOOSE g \in groups : g.type = k).total
       ELSE 0]

ZeroSummary == [income |-> 0, expense |-> 0, transfer |-> 0]

\* SELECT category, SUM(amount) as total, COUNT(*) as count ...
\* WHERE type = ? AND date >= ? AND date <= ? GROUP BY category
BreakdownRows(rows, type, startDate, endDate) ==
  LET sel == {r \in rows : r.type = type /\ InRange(r, startDate, endDate)}
  IN  {[category |-> c,
        total |-> SumAmount({r \in sel : r.category = c}),
        count |-> Cardinality({r \in sel : r.category = c})] :
         c \in {r.category : r \in sel}}

\* days of a month of the Gregorian calendar
DaysInMonth(y, m) ==
  IF m = 2
    THEN IF (y % 4 = 0 /\ y % 100 # 0) \/ y % 400 = 0 THEN 29 ELSE 28
    ELSE IF m \in {4, 6, 9, 11} THEN 30 ELSE 31

\* startDate.setMonth(startDate.getMonth() - months), then toISOString: the
\* month goes back across years, a day past the end of the month found
\* carries into the next month
MonthsBack(now, months) ==
  LET total == now[1] * 12 + (now[2] - 1) - months
      y == total \div 12
      m == (total % 12) + 1
      dim == DaysInMonth(y, m)
  IN  IF now[3] <= dim THEN <<y, m, now[3]>>
      ELSE IF m = 12 THEN <<y + 1, 1, now[3] - dim>>
      ELSE <<y, m + 1, now[3] - dim>>

\* strftime('%Y-%m', date)
YearMonth(date) == <<date[1], date[2]>>

\* SELECT strftime('%Y-%m', date) as month, type, SUM(amount) as total ...
\* WHERE date >= ? GROUP BY month, type
TrendRows(rows, startDate) ==
  LET sel == {r \in rows : TextLeq(startDate, r.date)}
  IN  {[month |-> g[1], type |-> g[2],
        total |-> SumAmount({r \in sel : YearMonth(r.date) = g[1] /\ r.type = g[2]})] :
         g \in {<<YearMonth(r.date), r.type>> : r \in sel}}

\* a statement of a method body runs: the store is open and the table exists
StoreReady(table) == db # Null /\ table \in tables

\* addTransaction: the catch block logs and throws the error again
addTransactionCatch(p) ==
  /\ Throws(p)
  /\ failed' = [failed EXCEPT ![p] = TRUE]

\* addTransaction(transaction): new Transaction, the INSERT, return txn
addTransaction(p) ==
  /\ pc[p] = "body" /\ op[p].name = "addTransaction"
  /\ LET txn == Transaction(op[p].data)
         ins == InsertTransaction(transactions, TransactionRow(txn))
     IN  \E ok \in BOOLEAN :
           IF ok /\ StoreReady("transactions") /\ ins.ok
             THEN /\ transactions' = ins.rows
                  /\ Returns(p, txn)
                  /\ UNCHANGED failed
             ELSE /\ addTransactionCatch(p)
                  /\ UNCHANGED transactions
  /\ UNCHANGED <<tables, categories, settings, instance, launches, faultsLeft,
                 idx, op>>
  /\ UNCHANGED <<authService, platform, crypto>>

\* the catch blocks of the reading methods log and return a default
getTransactionsCatch_Rethrow(p) ==
  /\ Throws(p)
  /\ failed' = [failed EXCEPT ![p] = TRUE]

getTransactionsCatch(p) ==
  /\ Returns(p, <<>>)
  /\ failed' = [failed EXCEPT ![p] = TRUE]

getTransactionSummaryCatch(p) ==
  /\ Returns(p, ZeroSummary)
  /\ failed' = [failed EXCEPT ![p] = TRUE]

getCategoryBreakdownCatch(p) ==
  /\ Returns(p, <<>>)
  /\ failed' = [failed EXCEPT ![p] = TRUE]

getMonthlyTrendsCatch(p) ==
  /\ Returns(p, <<>>)
  /\ failed' = [failed EXCEPT ![p] = TRUE]

\* getTransactions(limit, offset, filters): the SELECT with the filters,
\* ORDER BY date DESC LIMIT ? OFFSET ?; rows of equal date come in an order
\* the store chooses
getTransactions(p) ==
  /\ pc[p] = "body" /\ op[p].name = "getTransactions"
  /\ \E ok \in BOOLEAN :
       IF ok /\ StoreReady("transactions")
         THEN /\ LET sel == {r \in transactions : Where(r, op[p].filters)}
                 IN  \E s \in Orderings(sel, DateRank(sel)) :
                       LET rows == Slice(s, op[p].limit, op[p].offset)
                       IN  Returns(p, [i \in 1..Len(rows) |->
                                         fromJSON(RowObject(rows[i]))])
              /\ UNCHANGED failed
         ELSE getTransactionsCatch(p)
  /\ UNCHANGED <<store, instance, launches, faultsLeft, idx, op>>
  /\ UNCHANGED <<authService, platform, crypto>>

\* getTransactionSummary(startDate, endDate)
getTransactionSummary(p) ==
  /\ pc[p] = "body" /\ op[p].name = "getTransactionSummary"
  /\ \E ok \in BOOLEAN :
       IF ok /\ StoreReady("transactions")
         THEN /\ Returns(p, Summary(SummaryRows(transactions,
                                                op[p].startDate, op[p].endDate)))
              /\ UNCHANGED failed
         ELSE getTransactionSummaryCatch(p)
  /\ UNCHANGED <<store, instance, launches, faultsLeft, idx, op>>
  /\ UNCHANGED <<authService, platform, crypto>>

\* getCategoryBreakdown(type, startDate, endDate): ORDER BY total DESC
getCategoryBreakdown(p) ==
  /\ pc[p] = "body" /\ op[p].name = "getCategoryBreakdown"
  /\ \E ok \in BOOLEAN :
       IF ok /\ StoreReady("transactions")
         THEN /\ LET groups == BreakdownRows(transactions, op[p].type,
                                               op[p].startDate, op[p].endDate)
                 IN  \E s \in Orderings(groups, TotalRank(groups)) :
                       Returns(p, s)
              /\ UNCHANGED failed
         ELSE getCategoryBreakdownCatch(p)
  /\ UNCHANGED <<store, instance, launches, faultsLeft, idx, op>>
  /\ UNCHANGED <<authService, platform, crypto>>

\* getMonthlyTrends(months): ORDER BY month DESC
getMonthlyTrends(p) ==
  /\ pc[p] = "body" /\ op[p].name = "getMonthlyTrends"
  /\ \E ok \in BOOLEAN :
       IF ok /\ StoreReady("transactions")
         THEN /\ LET groups == TrendRows(transactions,
                                           MonthsBack(op[p].now, op[p].months))
                 IN  \E s \in Orderings(groups, MonthRank(groups)) :
                       Returns(p, s)
              /\ UNCHANGED failed
         ELSE getMonthlyTrendsCatch(p)
  /\ UNCHANGED <<store, instance, launches, faultsLeft, idx, op>>
  /\ UNCHANGED <<authService, platform, crypto>>

\* ------------------------------------------------------------- SpecQuery
\* Sequential calls of the transaction and settings methods on one service
\* instance; any statement of a method body can fail.
QueryOps ==
  {[name |-> "addTransaction", data |-> d] : d \in TxnInputs}
    \cup {[name |-> "getTransactions", limit |-> pg[1], offset |-> pg[2],
           filters |-> f] : pg \in PageInputs, f \in FilterInputs}
    \cup {[name |-> "getTransactionSummary", startDate |-> a, endDate |-> b] :
            a \in RangeInputs, b \in RangeInputs}
    \cup {[name |-> "getCategoryBreakdown", type |-> t, startDate |-> a, endDate |-> b] :
            t \in {"expense"}, a \in RangeInputs, b \in RangeInputs}
    \cup {[name |-> "getMonthlyTrends", now |-> n, months |-> m] :
            n \in NowInputs, m \in MonthsInputs}
    \cup {[name |-> "getSetting", key |-> "currency"],
          [name |-> "setSetting", key |-> "currency", value |-> "USD"]}

\* the table keeps to MaxTxn rows: an insert is tried when there is room or
\* when its id is taken
Admitted(o) ==
  o.name = "addTransaction" =>
    \/ Cardinality(transactions) < MaxTxn
    \/ "id" \in DOMAIN o.data /\ \E r \in transactions : r.id = o.data.id

\* the DDL and seed statements do not fail here; the open and every
\* statement of a method body can
InitQuery == Constructed /\ faultsLeft = 0

NextQuery ==
  \/ \E o \in QueryOps : Admitted(o) /\ Call(1, o)
  \/ OpenDatabase(1)
  \/ CreateTable(1)
  \/ insertDefaultCategories(1)
  \/ insertDefaultSettings(1)
  \/ addTransaction(1)
  \/ getTransactions(1)
  \/ getTransactionSummary(1)
  \/ getCategoryBreakdown(1)
  \/ getMonthlyTrends(1)
  \/ getSetting(1)
  \/ setSetting(1)
  \/ Return(1)

SpecQuery == InitQuery /\ [][NextQuery]_vars

\* ---------------------------------------------------------- SpecRoundTrip
\* A writer and a reader on one service instance: the first call adds
\* transactions, the second lists the table while the outcome of the first
\* is still at hand.
RoundTripOps(p) ==
  IF p = 1
    THEN {[name |-> "addTransaction", data |-> d] : d \in RoundTripInputs}
    ELSE {[name |-> "getTransactions", limit |-> DefaultLimit, offset |-> 0,
           filters |-> <<>>]}

NextRoundTrip ==
  \/ \E p \in {1, 2} : \E o \in RoundTripOps(p) : Admitted(o) /\ Call(p, o)
  \/ \E p \in {1, 2} : OpenDatabase(p)
  \/ \E p \in {1, 2} : CreateTable(p)
  \/ \E p \in {1, 2} : insertDefaultCategories(p)
  \/ \E p \in {1, 2} : insertDefaultSettings(p)
  \/ addTransaction(1)
  \/ getTransactions(2)
  \/ \E p \in {1, 2} : Return(p)

SpecRoundTrip == InitQuery /\ [][NextRoundTrip]_vars

\* ------------------------------------------------------------ AuthService
\* CryptoJS.SHA256(pin).toString(): the digest in hex, by its first digits
SHA256(pin) ==
  CASE pin = "1234" -> "03ac6742"
    [] pin = "0000" -> "9af15b33"

\* error.message of a rejected EncryptedStorage call
StorageError == "EncryptedStorage failed"

\* !value of a stored text: null and '' are falsy
Falsy(v) == v \in {Null, ""}

\* clearSessionTimer(): clearInterval of the interval this.sessionTimer
\* names, out of the scheduled intervals S
Cleared_Kept(S) == S

Cleared(S) ==
  IF sessionTimer # NoTimer THEN {iv \in S : iv.id # sessionTimer} ELSE S

\* an interval that fires is due again one period later
Rearmed_Once(S, iv) == S \ {iv}

Rearmed(S, iv) == (S \ {iv}) \cup {[iv EXCEPT !.due = iv.due + CheckInterval]}

\* the test of the session check
Expired_IgnoresFlag == clock - lastActivity > sessionTimeout

Expired == isAuthenticated /\ clock - lastActivity > sessionTimeout

\* updateLastActivity()
updateLastActivity_Skipped == UNCHANGED lastActivity

updateLastActivity == lastActivity' = clock

\* logout(): the flag, then clearSessionTimer() on the scheduled intervals S
logout(S) ==
  /\ isAuthenticated' = FALSE
  /\ sessionTimer' = NoTimer
  /\ intervals' = Cleared(S)

\* startSessionTimer(): clearSessionTimer(), then setInterval(..., 30000)
startSessionTimer_NoClear ==
  /\ timerCount' = timerCount + 1
  /\ sessionTimer' = timerCount + 1
  /\ intervals' = intervals
                    \cup {[id |-> timerCount + 1, due |-> clock + CheckInterval]}

startSessionTimer ==
  /\ timerCount' = timerCount + 1
  /\ sessionTimer' = timerCount + 1
  /\ intervals' = Cleared(intervals)
                    \cup {[id |-> timerCount + 1, due |-> clock + CheckInterval]}

\* AuthService.initialize() is called: it runs up to the await inside
\* DatabaseService.getSetting('authMethod')
AuthService_initialize(p) ==
  /\ timerCount < MaxTimers
  /\ Call(p, [name |-> "AuthService.initialize"])

\* AuthService.initialize(): getSetting has settled (null after a failure);
\* authMethod is assigned and the session timer started
AuthService_initialize_getSetting(p) ==
  /\ pc[p] = "body" /\ op[p].name = "AuthService.initialize"
  /\ \E ok \in BOOLEAN :
       LET ran == ok /\ StoreReady("settings")
           savedAuthMethod == IF ran THEN SelectSetting(settings, "authMethod")
                                     ELSE Null
       IN  /\ authMethod' = IF Falsy(savedAuthMethod) THEN "none"
                                                       ELSE savedAuthMethod
           /\ failed' = [failed EXCEPT ![p] = ~ran]
  /\ startSessionTimer
  /\ Returns(p, Undefined)
  /\ UNCHANGED <<store, instance, launches, faultsLeft, idx, op,
                 isAuthenticated, sessionTimeout, lastActivity, secure, clock>>
  /\ UNCHANGED crypto

\* setupPIN(pin) is called: the hash, up to the await of
\* EncryptedStorage.setItem
setupPIN(p, pin) ==
  /\ pc[p] = "idle"
  /\ op' = [op EXCEPT ![p] = [name |-> "setupPIN", pin |-> pin]]
  /\ pc' = [pc EXCEPT ![p] = "setItem"]
  /\ UNCHANGED <<store, instance, launches, faultsLeft, idx, res, failed,
                 authService, platform>>
  /\ UNCHANGED crypto

\* setupPIN: the catch block logs and returns the failure
setupPINCatch(p) ==
  /\ Returns(p, [success |-> FALSE, error |-> StorageError])
  /\ failed' = [failed EXCEPT ![p] = TRUE]

\* setupPIN: setItem('userPIN', hashedPIN) settles; DatabaseService.setSetting
\* is entered and runs up to the await of its initialize()
setupPIN_setItem(p) ==
  /\ pc[p] = "setItem"
  /\ \E ok \in BOOLEAN :
       IF ok
         THEN /\ secure' = [secure EXCEPT !["userPIN"] = SHA256(op[p].pin)]
              /\ initialize(p)
              /\ UNCHANGED <<res, failed>>
         ELSE /\ setupPINCatch(p)
              /\ UNCHANGED <<secure, openCount>>
  /\ UNCHANGED <<store, db, isInitialized, createCount, launches, faultsLeft,
                 idx, op, authService, intervals, timerCount, clock>>
  /\ UNCHANGED crypto

\* setupPIN: setSetting('authMethod', 'pin') has settled, its failure logged
\* inside it; authMethod is assigned and the success returned
setupPIN_setSetting(p) ==
  /\ pc[p] = "body" /\ op[p].name = "setupPIN"
  /\ \E ok \in BOOLEAN :
       LET ran == ok /\ StoreReady("settings")
       IN  /\ settings' = IF ran
                            THEN InsertOrReplaceSetting(settings,
                                   [key |-> "authMethod", value |-> "pin"])
                            ELSE settings
           /\ failed' = [failed EXCEPT ![p] = ~ran]
  /\ authMethod' = "pin"
  /\ Returns(p, [success |-> TRUE])
  /\ UNCHANGED <<tables, transactions, categories, instance, launches,
                 faultsLeft, idx, op, isAuthenticated, sessionTimeout,
                 lastActivity, sessionTimer, platform>>
  /\ UNCHANGED crypto

\* authenticateWithPIN(pin) is called: up to the await of
\* EncryptedStorage.getItem
authenticateWithPIN(p, pin) ==
  /\ pc[p] = "idle"
  /\ op' = [op EXCEPT ![p] = [name |-> "authenticateWithPIN", pin |-> pin]]
  /\ pc' = [pc EXCEPT ![p] = "getItem"]
  /\ UNCHANGED <<store, instance, launches, faultsLeft, idx, res, failed,
                 authService, platform>>
  /\ UNCHANGED crypto

\* authenticateWithPIN: what is returned for the stored hash and the input
PINResult_NoCheck(storedHashedPIN, pin) ==
  IF SHA256(pin) = storedHashedPIN
    THEN [success |-> TRUE]
    ELSE [success |-> FALSE, error |-> "Incorrect PIN"]

PINResult(storedHashedPIN, pin) ==
  IF Falsy(storedHashedPIN)
    THEN [success |-> FALSE, error |-> "No PIN set up"]
    ELSE IF SHA256(pin) = storedHashedPIN
      THEN [success |-> TRUE]
      ELSE [success |-> FALSE, error |-> "Incorrect PIN"]

\* authenticateWithPIN: the catch block logs and returns the failure
authenticateWithPINCatch(p) ==
  /\ Returns(p, [success |-> FALSE, error |-> StorageError])
  /\ failed' = [failed EXCEPT ![p] = TRUE]

\* authenticateWithPIN: getItem('userPIN') settles
authenticateWithPIN_getItem(p) ==
  /\ pc[p] = "getItem"
  /\ \E ok \in BOOLEAN :
       IF ok
         THEN LET result == PINResult(secure["userPIN"], op[p].pin)
              IN  /\ Returns(p, result)
                  /\ IF result.success
                       THEN isAuthenticated' = TRUE /\ updateLastActivity
                       ELSE UNCHANGED <<isAuthenticated, lastActivity>>
                  /\ UNCHANGED failed
         ELSE /\ authenticateWithPINCatch(p)
              /\ UNCHANGED <<isAuthenticated, lastActivity>>
  /\ UNCHANGED <<store, instance, launches, faultsLeft, idx, op,
                 authMethod, sessionTimeout, sessionTimer, platform>>
  /\ UNCHANGED crypto

\* authenticate(): it has no await and completes in the call
authenticate_Open(p) ==
  /\ pc[p] = "idle"
  /\ op' = [op EXCEPT ![p] = [name |-> "authenticate"]]
  /\ isAuthenticated' = TRUE
  /\ updateLastActivity
  /\ Returns(p, [success |-> TRUE])
  /\ UNCHANGED <<store, instance, launches, faultsLeft, idx, failed,
                 authMethod, sessionTimeout, sessionTimer, platform>>
  /\ UNCHANGED crypto

authenticate(p) ==
  /\ pc[p] = "idle"
  /\ op' = [op EXCEPT ![p] = [name |-> "authenticate"]]
  /\ IF authMethod = "none"
       THEN /\ isAuthenticated' = TRUE
            /\ updateLastActivity
            /\ Returns(p, [success |-> TRUE])
       ELSE IF authMethod = "pin"
         THEN /\ Returns(p, [success |-> FALSE, requiresPIN |-> TRUE])
              /\ UNCHANGED <<isAuthenticated, lastActivity>>
         ELSE /\ isAuthenticated' = TRUE
              /\ updateLastActivity
              /\ Returns(p, [success |-> TRUE])
  /\ UNCHANGED <<store, instance, launches, faultsLeft, idx, failed,
                 authMethod, sessionTimeout, sessionTimer, platform>>
  /\ UNCHANGED crypto

\* a call of logout()
Logout(p) ==
  /\ pc[p] = "idle"
  /\ op' = [op EXCEPT ![p] = [name |-> "logout"]]
  /\ logout(intervals)
  /\ Returns(p, Undefined)
  /\ UNCHANGED <<store, instance, launches, faultsLeft, idx, failed,
                 authMethod, sessionTimeout, lastActivity,
                 secure, timerCount, clock>>
  /\ UNCHANGED crypto

\* setSessionTimeout(minutes) is called: the field, then
\* DatabaseService.setSetting up to the await of its initialize()
setSessionTimeout(p, minutes) ==
  /\ pc[p] = "idle"
  /\ op' = [op EXCEPT ![p] = [name |-> "setSessionTimeout", minutes |-> minutes]]
  /\ sessionTimeout' = minutes * 60 * 1000
  /\ initialize(p)
  /\ UNCHANGED <<store, db, isInitialized, createCount, launches, faultsLeft,
                 idx, res, failed, isAuthenticated, authMethod, lastActivity,
                 sessionTimer, platform>>
  /\ UNCHANGED crypto

\* setSessionTimeout: setSetting('sessionTimeout', minutes.toString()) has
\* settled, its failure logged inside it
setSessionTimeout_setSetting(p) ==
  /\ pc[p] = "body" /\ op[p].name = "setSessionTimeout"
  /\ \E ok \in BOOLEAN :
       LET ran == ok /\ StoreReady("settings")
       IN  /\ settings' = IF ran
                            THEN InsertOrReplaceSetting(settings,
                                   [key |-> "sessionTimeout",
                                    value |-> ToString(op[p].minutes)])
                            ELSE settings
           /\ failed' = [failed EXCEPT ![p] = ~ran]
  /\ Returns(p, Undefined)
  /\ UNCHANGED <<tables, transactions, categories, instance, launches,
                 faultsLeft, idx, op, authService, platform>>
  /\ UNCHANGED crypto

\* The callback of a scheduled interval runs, at its due time or later: the
\* session check.
Tick ==
  /\ \E iv \in intervals :
       /\ iv.due <= clock
       /\ IF Expired
            THEN logout(Rearmed(intervals, iv))
            ELSE /\ intervals' = Rearmed(intervals, iv)
                 /\ UNCHANGED <<isAuthenticated, sessionTimer>>
  /\ UNCHANGED <<store, instance, launches, faultsLeft, pc, idx, op, res,
                 failed, authMethod, sessionTimeout, lastActivity,
                 secure, timerCount, clock>>
  /\ UNCHANGED crypto

\* Time passes, by one check interval, between calls; a callback that is
\* due runs before more time passes.
Advance ==
  /\ clock < MaxChecks * CheckInterval
  /\ \A p \in Procs : pc[p] \in {"idle", "done"}
  /\ \A iv \in intervals : iv.due > clock
  /\ clock' = clock + CheckInterval
  /\ UNCHANGED <<store, instance, launches, faultsLeft, pc, idx, op, res,
                 failed, authService, secure, intervals, timerCount>>
  /\ UNCHANGED crypto

\* --------------------------------------------------------------- SpecAuth
\* The asynchronous methods of AuthService are called one after the other
\* (process 1); authenticate() and logout() are called at any moment
\* (process 2); the session check fires on time.  The open of the store,
\* any statement of a method body and any access of the secure storage can
\* fail.
NextAuth ==
  \/ AuthService_initialize(1)
  \/ OpenDatabase(1)
  \/ CreateTable(1)
  \/ insertDefaultCategories(1)
  \/ insertDefaultSettings(1)
  \/ AuthService_initialize_getSetting(1)
  \/ \E pin \in PinInputs : setupPIN(1, pin)
  \/ setupPIN_setItem(1)
  \/ setupPIN_setSetting(1)
  \/ \E pin \in PinInputs : authenticateWithPIN(1, pin)
  \/ authenticateWithPIN_getItem(1)
  \/ \E m \in MinutesInputs : setSessionTimeout(1, m)
  \/ setSessionTimeout_setSetting(1)
  \/ authenticate(2)
  \/ Logout(2)
  \/ \E p \in {1, 2} : Return(p)
  \/ Tick
  \/ Advance

SpecAuth == InitQuery /\ [][NextAuth]_vars

\* ------------------------------------------------------------- encryption
\* CryptoJS.lib.WordArray.random(256/8).toString(): the text of the n-th draw
RandomKey(n) == "random-key-" \o ToString(n)

\* 'default-encryption-key-' + Date.now()
DefaultKey == "default-encryption-key-" \o ToString(clock)

\* CryptoJS.AES.encrypt(text, key).toString(): the OpenSSL text, which starts
\* 'U2FsdGVkX1' ('Salted__'), of the text under the key
AESencrypt(text, k) == <<"U2FsdGVkX1", k>> \o text

\* CryptoJS.AES.decrypt(blob, key).toString(CryptoJS.enc.Utf8): the text
\* encrypted under this key; of any other blob bytes that are no text, ''
\* (or 'Malformed UTF-8 data' thrown, which the same catch takes)
AESdecrypt(blob, k) ==
  IF Len(blob) >= 2 /\ blob[1] = "U2FsdGVkX1" /\ blob[2] = k
    THEN SubSeq(blob, 3, Len(blob))
    ELSE EmptyText

\* encryptData: the catch block returns the unencrypted serialization
encryptDataCatch(data) == JSONstringify(data)

\* encryptData(data) once the key is there: JSON.stringify(data), which
\* throws on a circular structure, in the try block and again in the catch
\* block; AES.encrypt, which can throw
encryptData(p, k) ==
  IF op[p].data = Circular
    THEN Throws(p)
    ELSE \E ok \in BOOLEAN :
           IF ok THEN Returns(p, AESencrypt(JSONstringify(op[p].data), k))
                 ELSE Returns(p, encryptDataCatch(op[p].data))

\* decryptData: what is returned for the blob and the key
DecryptedValue_NoFallback(blob, k) ==
  LET decryptedString == AESdecrypt(blob, k)
  IN  IF ~SyntaxError(decryptedString) THEN JSONparse(decryptedString)
      ELSE JsNull

DecryptedValue(blob, k) ==
  LET decryptedString == AESdecrypt(blob, k)
  IN  IF ~SyntaxError(decryptedString) THEN JSONparse(decryptedString)
      ELSE IF ~SyntaxError(blob) THEN JSONparse(blob)
      ELSE JsNull

\* decryptData(encryptedData) once the key is there
decryptData(p, k) == Returns(p, DecryptedValue(op[p].blob, k))

\* generateEncryptionKey() returns k, after a failure of the secure storage
\* or not, and the method that awaited it completes
generateEncryptionKeyReturns(p, k, ok) ==
  /\ localKey' = [localKey EXCEPT ![p] = k]
  /\ failed' = [failed EXCEPT ![p] = ~ok]
  /\ CASE op[p].name = "generateEncryptionKey" -> Returns(p, k)
       [] op[p].name = "encryptData"           -> encryptData(p, k)
       [] op[p].name = "decryptData"           -> decryptData(p, k)

\* generateEncryptionKey: the catch block returns a default key
generateEncryptionKeyCatch(p) == generateEncryptionKeyReturns(p, DefaultKey, FALSE)

\* generateEncryptionKey(), encryptData(data) or decryptData(encryptedData)
\* is called: up to the await of EncryptedStorage.getItem('encryptionKey')
generateEncryptionKey(p, o) ==
  /\ pc[p] = "idle"
  /\ keyCount + Cardinality({q \in Procs : pc[q] = "keyGet"}) < MaxKeys
  /\ op' = [op EXCEPT ![p] = o]
  /\ pc' = [pc EXCEPT ![p] = "keyGet"]
  /\ UNCHANGED <<store, instance, launches, faultsLeft, idx, res, failed,
                 authService, platform, crypto>>

\* generateEncryptionKey: getItem('encryptionKey') settles; with no key
\* stored a new one is drawn, up to the await of setItem
generateEncryptionKey_getItem(p) ==
  /\ pc[p] = "keyGet"
  /\ \E ok \in BOOLEAN :
       IF ~ok
         THEN /\ generateEncryptionKeyCatch(p)
              /\ UNCHANGED keyCount
       ELSE IF ~Falsy(secure["encryptionKey"])
         THEN /\ generateEncryptionKeyReturns(p, secure["encryptionKey"], TRUE)
              /\ UNCHANGED keyCount
         ELSE /\ localKey' = [localKey EXCEPT ![p] = RandomKey(keyCount + 1)]
              /\ keyCount' = keyCount + 1
              /\ pc' = [pc EXCEPT ![p] = "keySet"]
              /\ UNCHANGED <<res, failed>>
  /\ UNCHANGED <<store, instance, launches, faultsLeft, idx, op,
                 authService, platform>>

\* generateEncryptionKey: setItem('encryptionKey', key) settles
generateEncryptionKey_setItem(p) ==
  /\ pc[p] = "keySet"
  /\ \E ok \in BOOLEAN :
       IF ok
         THEN /\ secure' = [secure EXCEPT !["encryptionKey"] = localKey[p]]
              /\ generateEncryptionKeyReturns(p, localKey[p], TRUE)
         ELSE /\ generateEncryptionKeyCatch(p)
              /\ UNCHANGED secure
  /\ UNCHANGED <<store, instance, launches, faultsLeft, idx, op,
                 authService, intervals, timerCount, clock, keyCount>>

\* ------------------------------------------------------------- SpecCrypto
\* Two callers of the encryption methods whose calls overlap: the first
\* asks for the key and encrypts, the second asks for the key and decrypts
\* what the first was returned or a text from elsewhere.  Any access of the
\* secure storage and the cipher can fail; time passes between calls.
CryptoOps(p) ==
  {[name |-> "generateEncryptionKey"]}
    \cup (IF p = 1
            THEN {[name |-> "encryptData", data |-> v] : v \in CryptoInputs}
            ELSE {[name |-> "decryptData", blob |-> b] :
                    b \in BlobInputs
                            \cup {res[q].val : q \in {q \in {1} :
                                    /\ op[q].name = "encryptData"
                                    /\ res[q].kind = "return"}}})

NextCrypto ==
  \/ \E p \in {1, 2} : \E o \in CryptoOps(p) : generateEncryptionKey(p, o)
  \/ \E p \in {1, 2} : generateEncryptionKey_getItem(p)
  \/ \E p \in {1, 2} : generateEncryptionKey_setItem(p)
  \/ \E p \in {1, 2} : Return(p)
  \/ Advance

SpecCrypto == InitQuery /\ [][NextCrypto]_vars

\* ---------------------------------------------------------- resetSecurity
\* resetSecurity() is called: up to the await of
\* EncryptedStorage.removeItem('userPIN')
resetSecurity(p) ==
  /\ pc[p] = "idle"
  /\ op' = [op EXCEPT ![p] = [name |-> "resetSecurity"]]
  /\ pc' = [pc EXCEPT ![p] = "removePIN"]
  /\ UNCHANGED <<store, instance, launches, faultsLeft, idx, res, failed,
                 authService, platform, crypto>>

\* what the caller of resetSecurity() gets: handleResetApp does not look at
\* the result and shows its alert
resetSecurityReturns(p, result) ==
  IF "caller" \in DOMAIN op[p]
    THEN Returns(p, [alert |-> "App has been reset successfully"])
    ELSE Returns(p, result)

\* resetSecurity: the catch block logs and returns the failure
resetSecurityCatch(p) ==
  /\ resetSecurityReturns(p, [success |-> FALSE, error |-> StorageError])
  /\ failed' = [failed EXCEPT ![p] = TRUE]

\* resetSecurity: removeItem('userPIN') settles
resetSecurity_removePIN(p) ==
  /\ pc[p] = "removePIN"
  /\ \E ok \in BOOLEAN :
       IF ok
         THEN /\ secure' = [secure EXCEPT !["userPIN"] = Null]
              /\ pc' = [pc EXCEPT ![p] = "removeKey"]
              /\ UNCHANGED <<res, failed>>
         ELSE /\ resetSecurityCatch(p)
              /\ UNCHANGED secure
  /\ UNCHANGED <<store, instance, launches, faultsLeft, idx, op,
                 authService, intervals, timerCount, clock, crypto>>

\* resetSecurity: removeItem('encryptionKey') settles;
\* DatabaseService.setSetting is entered and runs up to the await of its
\* initialize()
resetSecurity_removeKey(p) ==
  /\ pc[p] = "removeKey"
  /\ \E ok \in BOOLEAN :
       IF ok
         THEN /\ secure' = [secure EXCEPT !["encryptionKey"] = Null]
              /\ initialize(p)
              /\ UNCHANGED <<res, failed>>
         ELSE /\ resetSecurityCatch(p)
              /\ UNCHANGED <<secure, openCount>>
  /\ UNCHANGED <<store, db, isInitialized, createCount, launches, faultsLeft,
                 idx, op, authService, intervals, timerCount, clock, crypto>>

\* resetSecurity: setSetting('authMethod', 'none') has settled, its failure
\* logged inside it; the fields are assigned and the success returned
resetSecurity_setSetting(p) ==
  /\ pc[p] = "body" /\ op[p].name = "resetSecurity"
  /\ \E ok \in BOOLEAN :
       LET ran == ok /\ StoreReady("settings")
       IN  /\ settings' = IF ran
                            THEN InsertOrReplaceSetting(settings,
                                   [key |-> "authMethod", value |-> "none"])
                            ELSE settings
           /\ failed' = [failed EXCEPT ![p] = ~ran]
  /\ authMethod' = "none"
  /\ isAuthenticated' = FALSE
  /\ resetSecurityReturns(p, [success |-> TRUE])
  /\ UNCHANGED <<tables, transactions, categories, instance, launches,
                 faultsLeft, idx, op, sessionTimeout, lastActivity,
                 sessionTimer, platform, crypto>>

\* --------------------------------------------------------- handleResetApp
\* The user confirms 'Reset': DatabaseService.clearAllData() is called and
\* runs up to the await of its initialize()
handleResetApp(p) == Call(p, [name |-> "handleResetApp"])

\* handleResetApp: the catch block shows the failure
handleResetAppCatch(p) ==
  /\ Returns(p, [alert |-> "Failed to reset app"])
  /\ failed' = [failed EXCEPT ![p] = TRUE]

\* clearAllData() settles: the rows of every table are deleted and
\* AuthService.resetSecurity() is entered, or the failure is thrown to
\* handleResetApp
clearAllData(p) ==
  /\ pc[p] = "body" /\ op[p].name = "handleResetApp"
  /\ \E ok \in BOOLEAN :
       IF ok /\ db # Null /\ tables # {}
         THEN /\ transactions' = {}
              /\ categories' = {}
              /\ settings' = {}
              /\ op' = [op EXCEPT ![p] = [name |-> "resetSecurity",
                                          caller |-> "handleResetApp"]]
              /\ pc' = [pc EXCEPT ![p] = "removePIN"]
              /\ UNCHANGED <<res, failed>>
         ELSE /\ handleResetAppCatch(p)
              /\ UNCHANGED <<transactions, categories, settings, op>>
  /\ UNCHANGED <<tables, instance, launches, faultsLeft, idx,
                 authService, platform, crypto>>

\* ------------------------------------------------------ getSessionTimeout
\* parseInt of the text of a number
parseInt(text) == CHOOSE n \in 0..60 : ToString(n) = text

\* getSessionTimeout(): getSetting('sessionTimeout') has settled (null after
\* a failure); the minutes saved, or 5
getSessionTimeout(p) ==
  /\ pc[p] = "body" /\ op[p].name = "getSessionTimeout"
  /\ \E ok \in BOOLEAN :
       LET ran == ok /\ StoreReady("settings")
           saved == IF ran THEN SelectSetting(settings, "sessionTimeout")
                           ELSE Null
       IN  /\ Returns(p, IF Falsy(saved) THEN 5 ELSE parseInt(saved))
           /\ failed' = [failed EXCEPT ![p] = ~ran]
  /\ UNCHANGED <<store, instance, launches, faultsLeft, idx, op,
                 authService, platform, crypto>>

\* ---------------------------------------------------------------- SpecGate
\* The PIN gate over app launches: the methods of AuthService that set up,
\* check and reset the gate, and the reset of the app, are called one after
\* the other (process 1), authenticate() and logout() at any moment
\* (process 2), and the app is started again between calls.  The open of
\* the store, any statement of a method body and any access of the secure
\* storage can fail.
NextGate ==
  \/ AuthService_initialize(1)
  \/ OpenDatabase(1)
  \/ CreateTable(1)
  \/ insertDefaultCategories(1)
  \/ insertDefaultSettings(1)
  \/ AuthService_initialize_getSetting(1)
  \/ \E pin \in PinInputs : setupPIN(1, pin)
  \/ setupPIN_setItem(1)
  \/ setupPIN_setSetting(1)
  \/ \E pin \in PinInputs : authenticateWithPIN(1, pin)
  \/ authenticateWithPIN_getItem(1)
  \/ resetSecurity(1)
  \/ resetSecurity_removePIN(1)
  \/ resetSecurity_removeKey(1)
  \/ resetSecurity_setSetting(1)
  \/ handleResetApp(1)
  \/ clearAllData(1)
  \/ generateEncryptionKey(1, [name |-> "generateEncryptionKey"])
  \/ generateEncryptionKey_getItem(1)
  \/ generateEncryptionKey_setItem(1)
  \/ authenticate(2)
  \/ Logout(2)
  \/ \E p \in {1, 2} : Return(p)
  \/ Launch

SpecGate == InitQuery /\ [][NextGate]_vars

\* ------------------------------------------------------------- SpecTimeout
\* The session timeout over app launches: it is set and read back, and
\* AuthService.initialize() runs, one call after the other, and the app is
\* started again between calls.
NextTimeout ==
  \/ AuthService_initialize(1)
  \/ OpenDatabase(1)
  \/ CreateTable(1)
  \/ insertDefaultCategories(1)
  \/ insertDefaultSettings(1)
  \/ AuthService_initialize_getSetting(1)
  \/ \E m \in MinutesInputs : setSessionTimeout(1, m)
  \/ setSessionTimeout_setSetting(1)
  \/ Call(1, [name |-> "getSessionTimeout"])
  \/ getSessionTimeout(1)
  \/ Return(1)
  \/ Launch

SpecTimeout == InitQuery /\ [][NextTimeout]_vars

\* ================================================================ claims
InitPhase == {"open", "create", "seedCategory", "seedSetting"}

RowsNamed(name) == {r \in categories : r.name = name}
RowsKeyed(key)  == {r \in settings : r.key = key}

\* C1: on one service instance, whatever the interleaving of the calls, the
\* store is opened at most once and createTables() (with the seeding it
\* does) is run at most once.
C1_InitializedAtMostOnce ==
  openCount <= 1 /\ createCount <= 1

\* C2: once isInitialized is true, a call of initialize() returns at once:
\* it opens nothing, creates nothing, seeds nothing, and db and the four
\* tables are as they were.
C2_InitializeIdempotent ==
  [][\A p \in Procs :
       (isInitialized /\ pc[p] = "idle" /\ pc'[p] # "idle")
         => /\ pc'[p] = "body"
            /\ UNCHANGED <<db, isInitialized, openCount, createCount,
                           tables, transactions, categories, settings>>]_vars

\* two calls have completed on an opened store and only one of them opened it
C2_Witness ==
  /\ \A p \in Procs : p <= 2 => pc[p] = "done"
  /\ openCount = 1 /\ createCount = 1 /\ db = "open"

\* C3: initialize() never throws: when the open, a CREATE TABLE or a seed
\* statement fails, the call still returns normally with isInitialized true.
C3_InitializeNeverThrows ==
  \A p \in Procs :
    /\ pc[p] \in {"body", "done"} => isInitialized
    /\ (pc[p] = "done" /\ op[p].name = "initialize") => res[p].kind = "return"

\* initialize() has returned although the store could not be opened
C3_Witness ==
  \E p \in Procs :
    /\ pc[p] = "done" /\ op[p].name = "initialize"
    /\ db = Null /\ openCount = 1

\* C4: after any number of initializations against the same store, each of
\* them complete and free of failures, the categories table holds exactly
\* one row per default category name and the settings table exactly one row
\* per default key.
C4_SeededExactlyOnce ==
  (isInitialized /\ db = "open" /\ faultsLeft = MaxFaults
     /\ \A p \in Procs : pc[p] \notin InitPhase)
    => /\ \A i \in DOMAIN defaultCategories :
            Cardinality(RowsNamed(defaultCategories[i].name)) = 1
       /\ \A i \in DOMAIN defaultSettings :
            Cardinality(RowsKeyed(defaultSettings[i].key)) = 1

\* C5: seeding is insert-if-absent: an iteration of insertDefaultSettings
\* leaves every settings row that exists as it is, so a value written by
\* setSetting is never overwritten by a default.
C5_SeedKeepsExistingSetting ==
  [][\A p \in Procs :
       (pc[p] = "seedSetting" /\ (pc'[p] # pc[p] \/ idx'[p] # idx[p]))
         => settings \subseteq settings']_vars

\* in a later launch, the seeding of key currency has run over the value
\* EUR written by setSetting
C5_Witness ==
  /\ launches >= 2
  /\ pc[1] = "seedSetting" /\ idx[1] = 2
  /\ [key |-> "currency", value |-> "EUR"] \in settings


\* ---------------------------------------------------------- transactions
\* the instant an ISO text names
Instant(text) == CHOOSE d \in Instants : IsoText[d] = text

\* date >= text and date <= text as a claim reads them: by time, with the
\* empty text before every date
NotBefore(r, text) == text = EmptyText \/ Instant(r.date) >= Instant(text)
NotAfter(r, text)  == text # EmptyText /\ Instant(r.date) <= Instant(text)

RowWithId(rows, i) == CHOOSE r \in rows : r.id = i

\* the sum of the amounts of a set of rows, id by id
RECURSIVE TotalUpTo(_, _)
TotalUpTo(rows, n) ==
  IF n = 0 THEN 0
  ELSE TotalUpTo(rows, n - 1)
         + (IF \E r \in rows : r.id = n THEN RowWithId(rows, n).amount ELSE 0)

Total(rows) == TotalUpTo(rows, MaxTxn)

\* s is the page (limit, offset) of a listing of the rows M by date
\* descending: its length, its members, and the rank of each member
IsPage(s, M, limit, offset) ==
  LET left == IF Cardinality(M) > offset THEN Cardinality(M) - offset ELSE 0
  IN  /\ Len(s) = (IF limit < left THEN limit ELSE left)
      /\ \A i \in 1..Len(s) :
           \E m \in M : /\ m.id = s[i].id /\ m.amount = s[i].amount
                        /\ m.type = s[i].type /\ m.category = s[i].category
                        /\ Instant(m.date) = s[i].date
      /\ \A i, j \in 1..Len(s) : i # j => s[i].id # s[j].id
      /\ \A i \in 1..Len(s) :
           /\ Cardinality({m \in M : Instant(m.date) > s[i].date}) < offset + i
           /\ Cardinality({m \in M : Instant(m.date) >= s[i].date}) >= offset + i

\* C6: addTransaction either returns the normalized record, the table
\* having gained exactly one row, with the record's id, or throws and
\* leaves the table unchanged; with a row of the same id stored it throws.
C6_AddTransaction ==
  [][\A p \in Procs :
       (pc[p] = "body" /\ op[p].name = "addTransaction" /\ pc'[p] = "done")
         => LET data == op[p].data
                out == res'[p]
            IN  /\ out.kind \in {"return", "throw"}
                /\ out.kind = "return" =>
                     /\ DOMAIN data \cup {"id"} \subseteq DOMAIN out.val
                     /\ \A k \in DOMAIN data : out.val[k] = data[k]
                     /\ \A r \in transactions : r.id # out.val.id
                     /\ Cardinality({r \in transactions' : r.id = out.val.id}) = 1
                     /\ {r \in transactions' : r.id # out.val.id} = transactions
                     /\ LET row == RowWithId(transactions', out.val.id)
                        IN  /\ row.amount = data.amount /\ row.type = data.type
                            /\ row.category = data.category
                            /\ Instant(row.date) = data.date
                /\ out.kind = "throw" => transactions' = transactions
                /\ ("id" \in DOMAIN data /\ \E r \in transactions : r.id = data.id)
                     => out.kind = "throw"]_vars

\* addTransaction has thrown on an id that is stored, on a working store
C6_Witness ==
  \E p \in Procs :
    /\ pc[p] = "done" /\ op[p].name = "addTransaction"
    /\ res[p].kind = "throw"
    /\ "id" \in DOMAIN op[p].data
    /\ \E r \in transactions : r.id = op[p].data.id
    /\ Cardinality(transactions) = MaxTxn

\* C7: after a store failure (a failing statement, or db null) every
\* method returns its default without throwing: getTransactions,
\* getCategoryBreakdown and getMonthlyTrends the empty sequence,
\* getTransactionSummary the three zeros, getSetting null, setSetting
\* nothing; addTransaction alone throws.
C7_ErrorPolicy ==
  \A p \in Procs :
    pc[p] = "done" =>
      /\ res[p].kind = "throw" => op[p].name = "addTransaction"
      /\ failed[p] =>
           CASE op[p].name = "addTransaction" -> res[p].kind = "throw"
             [] op[p].name \in {"getTransactions", "getCategoryBreakdown",
                                "getMonthlyTrends"} ->
                  res[p].kind = "return" /\ res[p].val = <<>>
             [] op[p].name = "getTransactionSummary" ->
                  res[p].kind = "return" /\ res[p].val = ZeroSummary
             [] op[p].name = "getSetting" ->
                  res[p].kind = "return" /\ res[p].val = Null
             [] op[p].name = "setSetting" -> res[p].kind = "return"
             [] OTHER -> FALSE

\* getTransactions has returned on a store that failed to open
C7_Witness ==
  \E p \in Procs :
    /\ pc[p] = "done" /\ op[p].name = "getTransactions"
    /\ failed[p] /\ db = Null /\ isInitialized

\* the rows a filters object selects when each key that is present counts
MatchesPresent(r, f) ==
  /\ "type" \in DOMAIN f => r.type = f.type
  /\ "category" \in DOMAIN f => r.category = f.category
  /\ "startDate" \in DOMAIN f => NotBefore(r, f.startDate)
  /\ "endDate" \in DOMAIN f => NotAfter(r, f.endDate)

\* the rows it selects when each key that is present with a non-empty value
\* counts
HasValue(f, k) == k \in DOMAIN f /\ f[k] # Empty(k)

MatchesValued(r, f) ==
  /\ HasValue(f, "type") => r.type = f.type
  /\ HasValue(f, "category") => r.category = f.category
  /\ HasValue(f, "startDate") => NotBefore(r, f.startDate)
  /\ HasValue(f, "endDate") => NotAfter(r, f.endDate)

Succeeded(p, name) ==
  pc[p] = "done" /\ op[p].name = name /\ ~failed[p] /\ res[p].kind = "return"

C9_SummarySums ==
  \A p \in Procs :
    Succeeded(p, "getTransactionSummary") =>
      \A t \in {"income", "expense", "transfer"} :
        /\ t \in DOMAIN res[p].val
        /\ res[p].val[t] =
             Total({r \in transactions :
                      /\ r.type = t
                      /\ Instant(op[p].startDate) <= Instant(r.date)
                      /\ Instant(r.date) <= Instant(op[p].endDate)})

\* one income of 100 and one expense of 40, both dated on the two ends of
\* the range, give income 100, expense 40, transfer 0
C9_Witness ==
  \E p \in Procs :
    /\ Succeeded(p, "getTransactionSummary")
    /\ op[p].startDate = op[p].endDate
    /\ Cardinality(transactions) = 2
    /\ \A r \in transactions : r.date = op[p].endDate
    /\ res[p].val["income"] = 100 /\ res[p].val["expense"] = 40
    /\ res[p].val["transfer"] = 0

\* C10: whatever the rows of the transactions table, the mapping
\* getTransactionSummary returns has exactly the keys income, expense and
\* transfer.
C10_SummaryFixedShape ==
  \A p \in Procs :
    (pc[p] = "done" /\ op[p].name = "getTransactionSummary"
       /\ res[p].kind = "return")
      => DOMAIN res[p].val = {"income", "expense", "transfer"}

\* ----------------------------------------------------- category breakdown
\* the stored rows of a type dated from startDate to endDate, by time
Selected(type, startDate, endDate) ==
  {r \in transactions :
     /\ r.type = type
     /\ Instant(startDate) <= Instant(r.date)
     /\ Instant(r.date) <= Instant(endDate)}

\* C11: getCategoryBreakdown returns exactly one entry per category that
\* has a stored row of the given type dated from startDate to endDate; the
\* entry's total is the sum of the amounts of those rows and its count their
\* number; other rows contribute nothing; the entries come by non-increasing
\* total.
C11_CategoryBreakdown ==
  \A p \in Procs :
    Succeeded(p, "getCategoryBreakdown") =>
      LET s == res[p].val
          M == Selected(op[p].type, op[p].startDate, op[p].endDate)
          Of(c) == {r \in M : r.category = c}
      IN  /\ \A r \in M :
               Cardinality({i \in 1..Len(s) : s[i].category = r.category}) = 1
          /\ \A i \in 1..Len(s) :
               /\ Of(s[i].category) # {}
               /\ s[i].total = Total(Of(s[i].category))
               /\ s[i].count = Cardinality(Of(s[i].category))
          /\ \A i, j \in 1..Len(s) : i < j => s[i].total >= s[j].total

\* the expenses of two categories, 100 of rent and 40 of food, have been
\* broken down over the whole range
C11_Witness ==
  \E p \in Procs :
    /\ Succeeded(p, "getCategoryBreakdown")
    /\ op[p].startDate = IsoText[1] /\ op[p].endDate = IsoText[2]
    /\ Len(res[p].val) = 2
    /\ res[p].val[1].total > res[p].val[2].total
    /\ \E r \in transactions : r.date = IsoText[2]

\* one category with two rows has been broken down: count 2
C11_WitnessCount ==
  \E p \in Procs :
    /\ Succeeded(p, "getCategoryBreakdown")
    /\ Len(res[p].val) = 1 /\ res[p].val[1].count = 2

\* --------------------------------------------------------------- round trip
\* the listing q completes now, without filters and with a limit that covers
\* the table
ListsAll(q) ==
  /\ pc[q] = "body" /\ op[q].name = "getTransactions"
  /\ pc'[q] = "done" /\ ~failed'[q]
  /\ op[q].filters = <<>> /\ op[q].offset = 0
  /\ op[q].limit >= Cardinality(transactions)

\* C12: once addTransaction(t) has succeeded, a listing of the whole table
\* returns exactly one record with t's id (the generated id where t names
\* none), equal to t field by field: tags the same sequence, recurringPattern
\* the same structure or null, recurring a boolean.
C12_RoundTrip ==
  [][\A p, q \in Procs :
       (Succeeded(p, "addTransaction") /\ ListsAll(q))
         => LET t == op[p].data
                id == res[p].val.id
                out == res'[q].val
                hits == {i \in 1..Len(out) : out[i].id = id}
            IN  /\ "id" \in DOMAIN t => id = t.id
                /\ Cardinality(hits) = 1
                /\ \A i \in hits :
                     /\ \A k \in DOMAIN t : out[i][k] = t[k]
                     /\ out[i].recurring \in BOOLEAN
                     /\ out[i].tags.t = "array"
                     /\ out[i].recurringPattern.t \in {"null", "object"}]_vars

\* a record with two tags and one with a recurring pattern have been added,
\* the second without an id, and the listing has returned both
C12_Witness ==
  /\ Succeeded(1, "addTransaction") /\ Succeeded(2, "getTransactions")
  /\ "id" \notin DOMAIN op[1].data
  /\ "recurringPattern" \in DOMAIN op[1].data
  /\ op[1].data.recurringPattern.t = "object" /\ op[1].data.recurring
  /\ Len(res[2].val) = 2
  /\ \E i \in 1..2 : /\ res[2].val[i].id = res[1].val.id
                      /\ res[2].val[i].recurringPattern = op[1].data.recurringPattern
                      /\ res[2].val[i].recurring
  /\ \E i \in 1..2 : res[2].val[i].tags = JsArray(<<JsString("b"), JsString("a")>>)

\* ----------------------------------------------------------------- settings
\* process p completes, in this step, a setSetting whose statement ran
SetsNow(p) ==
  /\ pc[p] = "body" /\ op[p].name = "setSetting"
  /\ pc'[p] = "done" /\ ~failed'[p]

\* C13: the settings table is a keyed upsert store.  A setSetting(k, v)
\* whose statement runs leaves exactly one row of key k, with value v, and
\* the rows of the other keys as they were (so does a second call with the
\* same value); no other step changes or removes a row, and a row appears
\* only by setSetting of its key or by the seeding of a default key; there
\* is never more than one row per key; and a getSetting(k) whose statement
\* runs returns the value of the row of k, null when there is none.
C13_SettingsUpsert ==
  [][/\ \A p \in Procs :
          SetsNow(p) =>
            /\ {r \in settings' : r.key = op[p].key}
                 = {[key |-> op[p].key, value |-> op[p].value]}
            /\ {r \in settings' : r.key # op[p].key}
                 = {r \in settings : r.key # op[p].key}
     /\ \A r \in settings :
          r \in settings' \/ \E p \in Procs : SetsNow(p) /\ op[p].key = r.key
     /\ \A r \in settings' :
          \/ r \in settings
          \/ \E p \in Procs : SetsNow(p) /\ op[p].key = r.key
          \/ \E i \in DOMAIN defaultSettings : defaultSettings[i] = r
     /\ \A r1, r2 \in settings' : r1.key = r2.key => r1 = r2
     /\ \A p \in Procs :
          (pc[p] = "body" /\ op[p].name = "getSetting"
             /\ pc'[p] = "done" /\ ~failed'[p])
            => res'[p].val =
                 (IF \E r \in settings : r.key = op[p].key
                    THEN (CHOOSE r \in settings : r.key = op[p].key).value
                    ELSE Null)]_vars

\* setSetting('currency', 'GBP') has run in a later launch, on a table that
\* holds the three other seeds and the row 'pin' of authMethod
C13_Witness ==
  /\ Succeeded(1, "setSetting")
  /\ op[1].key = "currency" /\ op[1].value = "GBP"
  /\ settings = {[key |-> "currency", value |-> "GBP"],
                 [key |-> "theme", value |-> "system"],
                 [key |-> "notifications", value |-> "true"],
                 [key |-> "firstLaunch", value |-> "true"],
                 [key |-> "authMethod", value |-> "pin"]}
  /\ launches >= 2

\* -------------------------------------------------------------- AuthService
\* steps of the model, told by what they leave behind
PinChecked(p) == pc[p] = "getItem" /\ pc'[p] = "done"
Called(p, name) == pc[p] = "idle" /\ pc'[p] = "done" /\ op'[p].name = name
TickStep == pc' = pc /\ clock' = clock /\ intervals' # intervals

Completed(p, name) == pc[p] = "done" /\ op[p].name = name

\* C14: with no PIN hash in the secure storage, authenticateWithPIN returns
\* a failure for every pin, never 'Incorrect PIN' and never a success:
\* 'No PIN set up' whenever the storage could be read; isAuthenticated stays
\* as it was.
C14_NoPinSetUp ==
  [][\A p \in Procs :
       (PinChecked(p) /\ secure["userPIN"] = Null)
         => /\ res'[p].kind = "return"
            /\ ~res'[p].val.success
            /\ res'[p].val.error # "Incorrect PIN"
            /\ ~failed'[p] => res'[p].val.error = "No PIN set up"
            /\ isAuthenticated' = isAuthenticated]_vars

\* 'No PIN set up' has been answered to a session that authenticate() had
\* opened
C14_Witness ==
  \E p \in Procs :
    /\ Completed(p, "authenticateWithPIN")
    /\ res[p].val = [success |-> FALSE, error |-> "No PIN set up"]
    /\ secure["userPIN"] = Null
    /\ isAuthenticated

\* C15: with a PIN hash stored, authenticateWithPIN(q) succeeds only if the
\* hash of q is the stored hash, and does so whenever the storage could be
\* read; a success makes isAuthenticated true and lastActivity the current
\* time; a mismatch answers 'Incorrect PIN', and every failure leaves
\* isAuthenticated and lastActivity as they were.
C15_PinCheck ==
  [][\A p \in Procs :
       (PinChecked(p) /\ secure["userPIN"] # Null)
         => LET match == SHA256(op[p].pin) = secure["userPIN"]
                out == res'[p].val
            IN  /\ res'[p].kind = "return"
                /\ out.success => match
                /\ ~failed'[p] => (out.success <=> match)
                /\ out.success => isAuthenticated' /\ lastActivity' = clock
                /\ (~failed'[p] /\ ~match) => out.error = "Incorrect PIN"
                /\ ~out.success =>
                     UNCHANGED <<isAuthenticated, lastActivity>>]_vars

\* the PIN 0000 has opened a session some time after the launch
C15_Witness ==
  \E p \in Procs :
    /\ Completed(p, "authenticateWithPIN")
    /\ op[p].pin = "0000" /\ res[p].val.success
    /\ secure["userPIN"] = SHA256("0000")
    /\ clock > 0 /\ lastActivity = clock /\ isAuthenticated

\* the PIN 1234 has been refused against the hash of 0000
C15_WitnessMismatch ==
  \E p \in Procs :
    /\ Completed(p, "authenticateWithPIN")
    /\ op[p].pin = "1234" /\ ~failed[p] /\ ~res[p].val.success
    /\ secure["userPIN"] = SHA256("0000")
    /\ ~isAuthenticated

\* C16: authenticate() never throws; with authMethod 'none' it makes
\* isAuthenticated true, lastActivity the current time, and returns success;
\* with authMethod 'pin' it returns {success: false, requiresPIN: true} and
\* leaves isAuthenticated as it was.
C16_Authenticate ==
  [][\A p \in Procs :
       Called(p, "authenticate")
         => /\ res'[p].kind = "return"
            /\ authMethod = "none" =>
                 /\ isAuthenticated' /\ lastActivity' = clock
                 /\ res'[p].val = [success |-> TRUE]
            /\ authMethod = "pin" =>
                 /\ res'[p].val = [success |-> FALSE, requiresPIN |-> TRUE]
                 /\ UNCHANGED <<isAuthenticated, lastActivity>>]_vars

\* authenticate() has asked for the PIN, the session closed
C16_Witness ==
  \E p \in Procs :
    /\ Completed(p, "authenticate")
    /\ authMethod = "pin" /\ ~isAuthenticated
    /\ res[p].val = [success |-> FALSE, requiresPIN |-> TRUE]

\* authenticate() has opened a session without a gate, some time after the
\* launch
C16_WitnessNone ==
  \E p \in Procs :
    /\ Completed(p, "authenticate")
    /\ authMethod = "none" /\ isAuthenticated
    /\ clock > 0 /\ lastActivity = clock

\* C17: when setupPIN(p) returns success, the secure storage holds the hash
\* of p under userPIN, authMethod is 'pin' in memory and the settings table
\* holds 'pin' under authMethod; when it returns failure, authMethod in
\* memory is as it was.
C17_SetupPIN ==
  [][\A p \in Procs :
       (op[p].name = "setupPIN" /\ pc[p] # "done" /\ pc'[p] = "done")
         => IF res'[p].val.success
              THEN /\ secure'["userPIN"] = SHA256(op[p].pin)
                   /\ authMethod' = "pin"
                   /\ [key |-> "authMethod", value |-> "pin"] \in settings'
              ELSE authMethod' = authMethod]_vars

\* C18: once AuthService.initialize() has run, in every session, an
\* authenticated session whose last activity is more than sessionTimeout
\* ago has a check scheduled within the next 30 seconds, and the check that
\* runs on such a session logs it out.
C18_SessionExpiry ==
  [][timerCount >= 1 =>
       /\ (isAuthenticated' /\ clock' - lastActivity' > sessionTimeout')
            => \E iv \in intervals' : iv.due <= clock' + CheckInterval
       /\ (TickStep /\ isAuthenticated /\ clock - lastActivity > sessionTimeout)
            => ~isAuthenticated']_vars

\* C19: logout() makes isAuthenticated false and sessionTimer null, leaves
\* no interval scheduled (so no further check fires), and leaves authMethod,
\* the stored PIN hash and the encryption key as they were.
C19_LogoutFrame ==
  [][\A p \in Procs :
       Called(p, "logout")
         => /\ ~isAuthenticated'
            /\ sessionTimer' = NoTimer
            /\ intervals' = {}
            /\ UNCHANGED <<authMethod, secure, settings>>]_vars

\* logout() has ended a session that had its timer running, with a PIN set
\* up
C19_Witness ==
  \E p \in Procs :
    /\ Completed(p, "logout")
    /\ timerCount >= 1 /\ sessionTimer = NoTimer /\ intervals = {}
    /\ ~isAuthenticated /\ lastActivity > 0
    /\ authMethod = "pin" /\ secure["userPIN"] # Null

\* C20: a session check and a logout() each run in one step: the step that
\* ends a session also makes sessionTimer null and leaves no interval
\* scheduled, whichever of the two takes it and in whichever order they run;
\* a check either ends the session so or changes nothing of AuthService; a
\* check on a session already ended changes nothing.
C20_TickLogoutRace ==
  [][/\ \A p \in Procs :
          Called(p, "logout") => ~isAuthenticated' /\ sessionTimer' = NoTimer
     /\ (isAuthenticated /\ ~isAuthenticated')
          => sessionTimer' = NoTimer /\ intervals' = {}
     /\ TickStep
          => \/ isAuthenticated /\ ~isAuthenticated'
             \/ UNCHANGED authService
     /\ (TickStep /\ ~isAuthenticated)
          => UNCHANGED <<authService, secure, settings>>]_vars

\* the race: the check of an expired session is due and logout() can be
\* called
C20_Witness ==
  /\ isAuthenticated /\ clock - lastActivity > sessionTimeout
  /\ \E iv \in intervals : iv.due <= clock
  /\ pc[2] = "idle"

\* a check has run on a session that logout() had ended and whose timer
\* initialize() had started again
C20_WitnessAfter ==
  /\ ~isAuthenticated /\ timerCount >= 2
  /\ \E iv \in intervals : iv.id = sessionTimer /\ iv.due > clock
  /\ clock - lastActivity > sessionTimeout
  /\ Completed(2, "logout")

\* --------------------------------------------------------------- encryption
\* a call of an encryption method has completed with the key it obtained
KeyObtained(p) == pc[p] = "done" /\ localKey[p] # Null

\* C21: a key is written to the secure storage only when none is stored,
\* and all the calls that obtain a key (generateEncryptionKey itself and
\* through encryptData / decryptData, overlapping or not) obtain the same
\* key; resetSecurity does not run here.
C21_KeyReuse ==
  [][/\ secure'["encryptionKey"] # secure["encryptionKey"]
          => secure["encryptionKey"] = Null
     /\ \A p, q \in Procs :
          (KeyObtained(p) /\ KeyObtained(q))' => localKey'[p] = localKey'[q]]_vars

\* decryptData completes in process q on what encryptData returned to
\* process p, the outcome of p still at hand
Decrypts(q, p) ==
  /\ op[q].name = "decryptData" /\ pc[q] # "done" /\ pc'[q] = "done"
  /\ op[p].name = "encryptData" /\ pc[p] = "done" /\ res[p].kind = "return"
  /\ op[q].blob = res[p].val

\* C22: for a serializable value v, nested or empty, decryptData of what
\* encryptData(v) returned gives back v when both calls obtained the same
\* key, whether encryptData returned the ciphertext or, on its fallback
\* path, the unencrypted serialization.
C22_EncryptRoundTrip ==
  [][\A p, q \in Procs :
       (Decrypts(q, p) /\ localKey'[q] = localKey[p])
         => res'[q] = [kind |-> "return", val |-> op[p].data]]_vars

\* a nested value has come back from its ciphertext under the stored key
C22_Witness ==
  /\ Completed(1, "encryptData") /\ Completed(2, "decryptData")
  /\ res[1].kind = "return" /\ op[2].blob = res[1].val /\ localKey[2] = localKey[1]
  /\ localKey[1] = secure["encryptionKey"]
  /\ res[1].val = AESencrypt(JSONstringify(op[1].data), localKey[1])
  /\ op[1].data.t = "object" /\ op[1].data.fields # <<>>
  /\ res[2].val = op[1].data

\* an empty value has come back from the unencrypted serialization that the
\* fallback of encryptData returned
C22_WitnessFallback ==
  /\ Completed(1, "encryptData") /\ Completed(2, "decryptData")
  /\ res[1].kind = "return" /\ op[2].blob = res[1].val /\ localKey[2] = localKey[1]
  /\ res[1].val = JSONstringify(op[1].data)
  /\ op[1].data = JsString("")
  /\ res[2].val = op[1].data

\* the call of the method named completes in this step
Completes(p, name) == op[p].name = name /\ pc[p] # "done" /\ pc'[p] = "done"

\* C23: decryptData never throws: it returns the value parsed from the
\* decrypted text, or when decrypting and parsing fails the value parsed
\* from its input as plain JSON, or null when that fails too; encryptData
\* never throws: it returns the ciphertext of the serialization of its
\* input or, on any failure, that serialization unencrypted.
C23_NeverThrows ==
  [][\A p \in Procs :
       /\ Completes(p, "decryptData")
            => /\ res'[p].kind = "return"
               /\ LET blob == op[p].blob
                      text == AESdecrypt(blob, localKey'[p])
                  IN  res'[p].val = IF ~SyntaxError(text) THEN JSONparse(text)
                                    ELSE IF ~SyntaxError(blob) THEN JSONparse(blob)
                                    ELSE JsNull
       /\ Completes(p, "encryptData")
            => /\ res'[p].kind = "return"
               /\ res'[p].val \in
                    { AESencrypt(JSONstringify(op[p].data), localKey'[p]),
                      JSONstringify(op[p].data) }]_vars

\* ------------------------------------------------------------ resetSecurity
\* the authMethod that AuthService.initialize() would load from the settings
PersistedAuthMethod ==
  LET saved == SelectSetting(settings, "authMethod")
  IN  IF Falsy(saved) THEN "none" ELSE saved

\* C24: when resetSecurity() returns success, the secure storage holds no
\* PIN hash and no encryption key, authMethod is 'none' in memory and in
\* the settings, and isAuthenticated is false.
C24_ResetSecurity ==
  [][\A p \in Procs :
       (Completes(p, "resetSecurity") /\ "caller" \notin DOMAIN op[p]
          /\ res'[p].val.success)
         => /\ secure'["userPIN"] = Null
            /\ secure'["encryptionKey"] = Null
            /\ authMethod' = "none"
            /\ PersistedAuthMethod' = "none"
            /\ ~isAuthenticated']_vars

\* the handler of 'Reset' shows its alert in this step
ResetAppCompletes(p) ==
  /\ pc[p] # "done" /\ pc'[p] = "done"
  /\ op[p].name = "handleResetApp" \/ "caller" \in DOMAIN op[p]

GateSetUp ==
  /\ secure["userPIN"] # Null
  /\ \A p \in Procs : ~(op[p].name = "setupPIN" /\ pc[p] # "done")

\* C26: once setupPIN has returned success and until resetSecurity
\* succeeds, on an instance whose initialize() has run, whatever failed in
\* the store or the secure storage, a step makes isAuthenticated true only
\* if it is authenticateWithPIN completing with a PIN whose hash is the
\* stored one.
C26_PinGate ==
  [][(GateSetUp /\ timerCount >= 1 /\ ~isAuthenticated /\ isAuthenticated')
       => \E p \in Procs :
            PinChecked(p) /\ SHA256(op[p].pin) = secure["userPIN"]]_vars

\* C27: between calls, whenever authMethod is 'pin' a PIN hash is in the
\* secure storage, so that authenticate() asking for the PIN can be
\* answered by some PIN.
C27_NoLockout ==
  ((\A p \in Procs : pc[p] \in {"idle", "done"}) /\ authMethod = "pin")
    => secure["userPIN"] # Null

\* ------------------------------------------------------------ session timer
\* C28: at most one interval is scheduled at any time; sessionTimer names
\* it, and is null exactly when none is scheduled: no interval fires that
\* sessionTimer does not name.
C28_OneTimer ==
  /\ Cardinality(intervals) <= 1
  /\ \A iv \in intervals : iv.id = sessionTimer
  /\ intervals = {} <=> sessionTimer = NoTimer

\* initialize() has run a second time, some time into an open session: the
\* one interval scheduled is the second
C28_Witness ==
  /\ timerCount = 2 /\ sessionTimer = 2 /\ clock >= 2 * CheckInterval
  /\ intervals = {[id |-> 2, due |-> clock + CheckInterval]}
  /\ isAuthenticated

\* the check has logged an idle session out: nothing is scheduled
C28_WitnessExpired ==
  /\ timerCount >= 1 /\ intervals = {} /\ sessionTimer = NoTimer
  /\ ~isAuthenticated /\ clock - lastActivity > sessionTimeout
  /\ \A p \in Procs : op[p].name # "logout"

\* C29: a session check makes isAuthenticated false only on a session that
\* was authenticated and whose last activity is more than sessionTimeout
\* ago; a check within the timeout, or on a session not authenticated,
\* changes nothing of AuthService, the secure storage and the store, and
\* leaves the interval that sessionTimer names scheduled.
C29_TickNotEarly ==
  [][TickStep =>
       /\ ~isAuthenticated'
            => ~isAuthenticated \/ clock - lastActivity > sessionTimeout
       /\ (~isAuthenticated \/ clock - lastActivity <= sessionTimeout)
            => /\ UNCHANGED <<authService, secure, store>>
               /\ \E iv \in intervals' : iv.id = sessionTimer' /\ iv.due > clock]_vars

\* the check has ended the session that authenticate() had opened, no
\* logout() called since
C29_Witness ==
  /\ Completed(2, "authenticate") /\ res[2].val.success
  /\ ~isAuthenticated /\ intervals = {} /\ sessionTimer = NoTimer
  /\ clock - lastActivity > sessionTimeout

\* the check is due on an open session whose last activity is exactly
\* sessionTimeout ago
C29_WitnessAtTimeout ==
  /\ isAuthenticated /\ clock - lastActivity = sessionTimeout
  /\ \E iv \in intervals : iv.id = sessionTimer /\ iv.due <= clock

\* ---------------------------------------------------------- session timeout
\* the timeout the settings hold, in ms, or the default of 5 minutes
PersistedTimeout ==
  LET saved == SelectSetting(settings, "sessionTimeout")
  IN  IF Falsy(saved) THEN DefaultTimeout ELSE parseInt(saved) * 60 * 1000

\* C30: after setSessionTimeout(m) the sessionTimeout in memory is m
\* minutes, and getSessionTimeout(), when it could read the settings,
\* returns the minutes in memory once they have been set; initialize() on
\* an instance whose sessionTimeout is as constructed leaves in memory the
\* timeout the settings hold, or 5 minutes when they hold none.
C30_TimeoutConfigured ==
  [][\A p \in Procs :
       /\ Completes(p, "setSessionTimeout")
            => sessionTimeout' = op[p].minutes * 60 * 1000
       /\ (Completes(p, "getSessionTimeout") /\ ~failed'[p]
              /\ sessionTimeout # DefaultTimeout)
            => res'[p].val * 60 * 1000 = sessionTimeout
       /\ (Completes(p, "AuthService.initialize")
              /\ sessionTimeout = DefaultTimeout)
            => sessionTimeout' = PersistedTimeout']_vars

====
